---- MODULE Spec2Model ----
(***************************************************************************)
(* 42Connect backend: the signed session/state tickets (session.py), the   *)
(* OAuth callback (main.py) and the reconciliation of the remote project   *)
(* and curriculum collections into the local store (sync.py, models.py).   *)
(*                                                                         *)
(* Python values are tagged records, so that None, integers, strings and   *)
(* booleans can sit in the same field:                                     *)
(*   [t |-> "null"]  None, also what dict.get gives for a missing key      *)
(*   [t |-> "int", v |-> n]     [t |-> "bool", v |-> b]                    *)
(*   [t |-> "str", v |-> s]     s a TLA+ string, or a sequence of one-     *)
(*                              character strings where the code looks     *)
(*                              inside the string (names, slugs, raw ids)  *)
(*   [t |-> "float", v |-> n]   a finite float with integral part n        *)
(*   [t |-> "inf"]              the float Infinity (json.loads accepts it) *)
(*   [t |-> "iso", v |-> n]     a string holding the ISO-8601 form of the  *)
(*                              instant n                                  *)
(*   [t |-> "dt", v |-> n]      the datetime object of the instant n       *)
(***************************************************************************)
EXTENDS Integers, Sequences, FiniteSets, Bags, TLC

None == [t |-> "null"]
I(n) == [t |-> "int", v |-> n]
S(s) == [t |-> "str", v |-> s]
B(b) == [t |-> "bool", v |-> b]

\* Python truthiness of a value, as `x or y` and `if not x` use it.
Truthy(j) ==
  CASE j.t = "null" -> FALSE
    [] j.t = "int" -> j.v # 0
    [] j.t = "float" -> j.v # 0
    [] j.t = "bool" -> j.v
    [] j.t = "str" -> Len(j.v) > 0
    [] OTHER -> TRUE

\* Python `a or b`.
PyOr(a, b) == IF Truthy(a) THEN a ELSE b

----------------------------------------------------------------------------
(* Characters and strings the code looks into.                             *)

Digits == <<"0", "1", "2", "3", "4", "5", "6", "7", "8", "9">>
UpperCase == <<"A", "B", "C", "D", "E", "F", "G", "H", "I", "J", "K", "L", "M",
               "N", "O", "P", "Q", "R", "S", "T", "U", "V", "W", "X", "Y", "Z">>
LowerCase == <<"a", "b", "c", "d", "e", "f", "g", "h", "i", "j", "k", "l", "m",
               "n", "o", "p", "q", "r", "s", "t", "u", "v", "w", "x", "y", "z">>

IsDigit(c) == \E i \in 1..Len(Digits) : Digits[i] = c
DigitVal(c) == (CHOOSE i \in 1..Len(Digits) : Digits[i] = c) - 1
IsSpace(c) == c \in {" ", "\t", "\n", "\r"}

\* str.lower() on one character and on a string.
LowerChar(c) ==
  IF \E i \in 1..Len(UpperCase) : UpperCase[i] = c
  THEN LowerCase[CHOOSE i \in 1..Len(UpperCase) : UpperCase[i] = c]
  ELSE c
Lower(s) == [i \in 1..Len(s) |-> LowerChar(s[i])]

\* `sub in s` for strings.
Contains(sub, s) ==
  \E i \in 0..(Len(s) - Len(sub)) :
    \A k \in 1..Len(sub) : s[i + k] = sub[k]

\* The value of a string of decimal digits.
RECURSIVE DigitsValue(_)
DigitsValue(s) ==
  IF Len(s) = 0 THEN 0
  ELSE 10 * DigitsValue(SubSeq(s, 1, Len(s) - 1)) + DigitVal(s[Len(s)])

\* str.rstrip(): the string without its trailing whitespace.
RECURSIVE RStrip(_)
RStrip(s) ==
  IF Len(s) > 0 /\ IsSpace(s[Len(s)]) THEN RStrip(SubSeq(s, 1, Len(s) - 1)) ELSE s

\* str.strip()
RECURSIVE LStrip(_)
LStrip(s) ==
  IF Len(s) > 0 /\ IsSpace(s[1]) THEN LStrip(SubSeq(s, 2, Len(s))) ELSE s

\* Python int(x): the integer, or the exception it raises.
IntCoerce(j) ==
  CASE j.t = "int" -> [ok |-> TRUE, v |-> j.v]
    [] j.t = "float" -> [ok |-> TRUE, v |-> j.v]
    [] j.t = "bool" -> [ok |-> TRUE, v |-> IF j.v THEN 1 ELSE 0]
    [] j.t = "inf" -> [ok |-> FALSE, err |-> "OverflowError"]
    [] j.t = "str" ->
         LET s == RStrip(LStrip(j.v)) IN
         IF Len(s) > 0 /\ \A i \in 1..Len(s) : IsDigit(s[i])
         THEN [ok |-> TRUE, v |-> DigitsValue(s)]
         ELSE [ok |-> FALSE, err |-> "ValueError"]
    [] OTHER -> [ok |-> FALSE, err |-> "TypeError"]

----------------------------------------------------------------------------
(* sync.py: the field mappers.                                             *)

PISCINE_KEYWORD == <<"p", "i", "s", "c", "i", "n", "e">>

\* parse_datetime
parse_datetime(value) ==
  IF value.t = "dt" THEN value
  ELSE IF value.t = "iso" THEN [t |-> "dt", v |-> value.v]
  ELSE None

\* _parse_progress_percent without the cap of 100 on the percent.
_parse_progress_percent_uncapped(name) ==
  IF ~Truthy(name) THEN None
  ELSE
    LET s == name.v
        n == Len(s)
        Match(i, e) ==
          /\ i <= e /\ e - i + 1 <= 3
          /\ \A k \in i..e : IsDigit(s[k])
          /\ \A k \in (e + 1)..n : IsSpace(s[k])
        starts == {i \in 1..n : \E e \in i..n : Match(i, e)}
    IN IF starts = {} THEN None
       ELSE
         LET i == CHOOSE x \in starts : \A y \in starts : x <= y
             e == CHOOSE x \in i..n : Match(i, x)
             cleaned == RStrip(SubSeq(s, 1, i - 1))
         IN [t |-> "parsed",
             percent |-> DigitsValue(SubSeq(s, i, e)),
             cleaned_name |-> IF Len(cleaned) > 0 THEN S(cleaned) ELSE None]

\* _parse_progress_percent: re.search(r"(\d{1,3})\s*$", name). The leftmost
\* match starts at the first i such that name[i..e] are at most three digits
\* and everything after e is whitespace; None, or [percent, cleaned_name].
_parse_progress_percent(name) ==
  IF ~Truthy(name) THEN None
  ELSE
    LET s == name.v
        n == Len(s)
        Match(i, e) ==
          /\ i <= e /\ e - i + 1 <= 3
          /\ \A k \in i..e : IsDigit(s[k])
          /\ \A k \in (e + 1)..n : IsSpace(s[k])
        starts == {i \in 1..n : \E e \in i..n : Match(i, e)}
    IN IF starts = {} THEN None
       ELSE
         LET i == CHOOSE x \in starts : \A y \in starts : x <= y
             e == CHOOSE x \in i..n : Match(i, x)
             percent == DigitsValue(SubSeq(s, i, e))
             cleaned == RStrip(SubSeq(s, 1, i - 1))
         IN [t |-> "parsed",
             percent |-> IF percent < 100 THEN percent ELSE 100,
             cleaned_name |-> IF Len(cleaned) > 0 THEN S(cleaned) ELSE None]

\* data.get("project") or {}: a missing project reads as one without fields.
NoProject == [id |-> None, name |-> None, slug |-> None]
ProjectOf(data) == IF data.project = None THEN NoProject ELSE data.project

\* A filter that lets every record through.
_should_store_every_project(data) == TRUE

\* _should_store_project
_should_store_project(data) ==
  LET project == ProjectOf(data)
      picked == PyOr(PyOr(project.name, project.slug), S(<<>>))
      name == Lower(picked.v)
  IN ~Contains(PISCINE_KEYWORD, name)

\* _extract_campus: the name of the first campus when it is a string.
_extract_campus(profile) ==
  IF Len(profile.campus) > 0 /\ profile.campus[1].name.t = "str"
  THEN profile.campus[1].name
  ELSE None

\* (profile.get("image") or {}).get("link")
ImageLink(profile) == IF Truthy(profile.image) THEN profile.image.link ELSE None

\* The result of a step that can raise: the value, or the exception.
Ok(v) == [ok |-> TRUE, v |-> v]
Raise(e) == [ok |-> FALSE, err |-> e]

\* `int(x) if x is not None else None`, as the mappers and the loops use it.
OptInt(j) ==
  IF j = None THEN Ok(None)
  ELSE LET r == IntCoerce(j) IN IF r.ok THEN Ok(I(r.v)) ELSE r

\* _project_payload_to_kwargs (synced_at, a wall-clock stamp, is left out of
\* the rows: no decision of the code reads it).
_project_payload_to_kwargs(data, student_id) ==
  LET project == ProjectOf(data)
      project_user_id == OptInt(data.id)
      project_id == OptInt(project.id)
      raw_name == project.name
      parsed == _parse_progress_percent(raw_name)
  IN IF ~project_user_id.ok THEN project_user_id
     ELSE IF ~project_id.ok THEN project_id
     ELSE Ok([student_id |-> student_id,
              forty_two_project_user_id |-> project_user_id.v,
              forty_two_project_id |-> project_id.v,
              slug |-> project.slug,
              name |-> IF parsed # None THEN parsed.cleaned_name ELSE raw_name,
              progress_percent |-> IF parsed # None THEN I(parsed.percent) ELSE None,
              status |-> data.status,
              validated |-> data.validated,
              final_mark |-> data.final_mark,
              marked_at |-> parse_datetime(data.marked_at)])

\* data.get("cursus") or {}
NoCursus == [id |-> None, name |-> None]
CursusOf(data) == IF data.cursus = None THEN NoCursus ELSE data.cursus

\* _cursus_payload_to_kwargs
_cursus_payload_to_kwargs(data, student_id) ==
  LET cursus == CursusOf(data)
      cursus_id == OptInt(PyOr(cursus.id, data.cursus_id))
  IN IF ~cursus_id.ok THEN cursus_id
     ELSE Ok([student_id |-> student_id,
              forty_two_cursus_id |-> cursus_id.v,
              name |-> cursus.name,
              grade |-> data.grade,
              began_at |-> parse_datetime(data.begin_at),
              ended_at |-> parse_datetime(data.end_at)])

\* The identity key _sync_projects derives from a fetched record.
ProjectKey(item) == OptInt(item.id)

\* The identity key _sync_cursus derives from a fetched record.
CursusKey(item) == OptInt(PyOr(item.cursus_id, CursusOf(item).id))

----------------------------------------------------------------------------
(* models.py: the store. A store is the content of the three tables:       *)
(*   students  the rows in primary-key order (the id is the position);     *)
(*             forty_two_id and login are unique                           *)
(*   projects  a set of rows; forty_two_project_user_id is unique          *)
(*   cursus    a bag of rows: nothing but the primary key tells two        *)
(*             enrollments of one student and one cursus apart             *)
(***************************************************************************)

EmptyStore == [students |-> <<>>, projects |-> {}, cursus |-> EmptyBag]

\* select(Student).where(Student.forty_two_id == forty_two_id): the ids found.
StudentIdsOf(store, forty_two_id) ==
  {i \in 1..Len(store.students) : store.students[i].forty_two_id = forty_two_id}

\* The unique constraint on students.login.
LoginsUnique(students) ==
  \A i, j \in 1..Len(students) : students[i].login = students[j].login => i = j

\* _upsert_student without the check of the profile's id.
_upsert_student_unchecked(store, profile) ==
  LET login == PyOr(profile.login, S(""))
      row == [forty_two_id |-> profile.id,
              login |-> login,
              display_name |-> PyOr(PyOr(profile.displayname, profile.usual_full_name), login),
              email |-> profile.email,
              image_url |-> ImageLink(profile),
              campus |-> _extract_campus(profile)]
  IN [ok |-> TRUE, store |-> [store EXCEPT !.students = Append(store.students, row)],
      sid |-> Len(store.students) + 1]

\* _upsert_student: the store the session sees afterwards and the student's id,
\* or the error that ends the request.
_upsert_student(store, profile) ==
  LET forty_two_id == profile.id
      found == StudentIdsOf(store, forty_two_id)
      login == PyOr(profile.login, S(""))
      display_name == PyOr(PyOr(profile.displayname, profile.usual_full_name), login)
      row == [forty_two_id |-> forty_two_id,
              login |-> login,
              display_name |-> display_name,
              email |-> profile.email,
              image_url |-> ImageLink(profile),
              campus |-> _extract_campus(profile)]
      students == IF found = {} THEN Append(store.students, row)
                  ELSE [store.students EXCEPT ![CHOOSE i \in found : TRUE] = row]
      sid == IF found = {} THEN Len(store.students) + 1 ELSE CHOOSE i \in found : TRUE
  IN IF forty_two_id = None THEN [ok |-> FALSE, status |-> 500, err |-> "Profile missing id"]
     ELSE IF ~LoginsUnique(students) THEN [ok |-> FALSE, status |-> 500, err |-> "IntegrityError"]
     ELSE [ok |-> TRUE, store |-> [store EXCEPT !.students = students], sid |-> sid]

\* select(Project).where(Project.student_id == student.id)
ProjectsOf(store, sid) == {r \in store.projects : r.student_id = sid}

\* A projects table without the unique constraint.
ProjectInsertsAllowedWithoutUnique(rows, added) == TRUE

\* The unique constraint on projects.forty_two_project_user_id, over the rows
\* of the table and the rows a flush inserts.
ProjectInsertsAllowed(rows, added) ==
  /\ \A k \in 1..Len(added) :
       \A r \in rows : r.forty_two_project_user_id # added[k].forty_two_project_user_id
  /\ \A k, l \in 1..Len(added) :
       added[k].forty_two_project_user_id = added[l].forty_two_project_user_id => k = l

\* The body of the loop of _sync_projects for a record that is stored under
\* key: the mapped object is updated, or a new one is given to session.add.
\* st.map is project_map (key -> the mapped object, as the loop has left it),
\* st.seen is seen_ids, st.added the objects given to session.add, in order.
ProjectAssign(st, key, kwargs) ==
  IF ~kwargs.ok THEN kwargs
  ELSE IF key \in DOMAIN st.map
  THEN Ok([st EXCEPT !.seen = @ \cup {key}, !.map[key] = kwargs.v])
  ELSE Ok([st EXCEPT !.seen = @ \cup {key}, !.added = Append(@, kwargs.v)])

\* One round of the loop of _sync_projects, project_user_id being the key
\* derived from the record.
ProjectRound(st, item, sid, project_user_id) ==
  IF ~_should_store_project(item) THEN Ok(st)
  ELSE IF ~project_user_id.ok THEN project_user_id
  ELSE IF project_user_id.v = None THEN Ok(st)
  ELSE ProjectAssign(st, project_user_id.v.v, _project_payload_to_kwargs(item, sid))

ProjectStep(st, item, sid) == ProjectRound(st, item, sid, ProjectKey(item))

\* The loop of _sync_projects over the fetched records, from record k on; res
\* is the outcome of the rounds before k.
RECURSIVE ProjectLoop(_, _, _, _)
ProjectLoop(payloads, k, sid, res) ==
  IF k > Len(payloads) \/ ~res.ok THEN res
  ELSE ProjectLoop(payloads, k + 1, sid, ProjectStep(res.v, payloads[k], sid))

\* project_map = {p.forty_two_project_user_id: p for p in existing.scalars()}
ProjectMap(store, sid) ==
  [key \in {r.forty_two_project_user_id.v : r \in ProjectsOf(store, sid)} |->
     CHOOSE r \in ProjectsOf(store, sid) : r.forty_two_project_user_id.v = key]

\* _sync_projects without its DELETE: the rows whose key was not seen stay.
ProjectFlushWithoutDelete(store, sid, st) ==
  LET others == store.projects \ ProjectsOf(store, sid)
      updated == {st.map[key] : key \in DOMAIN st.map}
      inserted == {st.added[k] : k \in 1..Len(st.added)}
  IN IF ~ProjectInsertsAllowed(others \cup updated, st.added)
     THEN [ok |-> FALSE, status |-> 500, err |-> "IntegrityError"]
     ELSE [ok |-> TRUE,
           store |-> [store EXCEPT !.projects = others \cup updated \cup inserted],
           inserts |-> Len(st.added), deletes |-> 0]

\* The end of _sync_projects, st being the outcome of the loop: the flush of
\* the pending inserts and updates, then the DELETE of the keys not seen.
ProjectFlush(store, sid, st) ==
  LET keys == DOMAIN st.map
      to_delete == keys \ st.seen
      others == store.projects \ ProjectsOf(store, sid)
      updated == {st.map[key] : key \in keys}
      inserted == {st.added[k] : k \in 1..Len(st.added)}
  IN IF ~ProjectInsertsAllowed(others \cup updated, st.added)
     THEN [ok |-> FALSE, status |-> 500, err |-> "IntegrityError"]
     ELSE [ok |-> TRUE,
           store |-> [store EXCEPT !.projects =
                        {r \in others \cup updated \cup inserted :
                           ~(r.student_id = sid
                             /\ r.forty_two_project_user_id.v \in to_delete)}],
           inserts |-> Len(st.added), deletes |-> Cardinality(to_delete)]

ProjectOutcome(store, sid, loop) ==
  IF ~loop.ok THEN [ok |-> FALSE, status |-> 500, err |-> loop.err]
  ELSE ProjectFlush(store, sid, loop.v)

\* _sync_projects: the store the session sees afterwards, or the exception.
_sync_projects(store, sid, payloads) ==
  ProjectOutcome(store, sid,
    ProjectLoop(payloads, 1, sid,
                Ok([map |-> ProjectMap(store, sid), seen |-> {}, added |-> <<>>])))

\* The bag of the elements of a sequence.
RECURSIVE BagOfSeq(_)
BagOfSeq(seq) ==
  IF Len(seq) = 0 THEN EmptyBag
  ELSE BagOfSeq(SubSeq(seq, 1, Len(seq) - 1)) (+) SetToBag({seq[Len(seq)]})

\* The bag of the values of a function (one copy for each argument).
RECURSIVE BagOfValues(_, _)
BagOfValues(f, keys) ==
  IF keys = {} THEN EmptyBag
  ELSE LET key == CHOOSE x \in keys : TRUE
       IN BagOfValues(f, keys \ {key}) (+) SetToBag({f[key]})

\* The keys cursus_map can hold: those of the student's rows that have one.
CursusKeys(store, sid) ==
  {r.forty_two_cursus_id.v :
     r \in {x \in DOMAIN store.cursus : x.student_id = sid /\ x.forty_two_cursus_id # None}}

\* The dictionaries `{c.forty_two_cursus_id: c for c in existing.scalars() if ...}`
\* can be: when several rows share a key the last one of the scan stays, and
\* the SELECT has no ORDER BY, so any of them can.
CursusMaps(store, sid) ==
  LET keys == CursusKeys(store, sid)
      rows == {x \in DOMAIN store.cursus : x.student_id = sid /\ x.forty_two_cursus_id # None}
  IN {m \in [keys -> rows] : \A key \in keys : m[key].forty_two_cursus_id.v = key}

\* The body of the loop of _sync_cursus for a record that is stored under key.
CursusAssign(st, key, kwargs) ==
  IF ~kwargs.ok THEN kwargs
  ELSE IF key \in DOMAIN st.map
  THEN Ok([st EXCEPT !.seen = @ \cup {key}, !.map[key] = kwargs.v])
  ELSE Ok([st EXCEPT !.seen = @ \cup {key}, !.added = Append(@, kwargs.v)])

\* One round of the loop of _sync_cursus, cursus_id being the key derived from
\* the record.
CursusRound(st, item, sid, cursus_id) ==
  IF ~cursus_id.ok THEN cursus_id
  ELSE IF cursus_id.v = None THEN Ok(st)
  ELSE CursusAssign(st, cursus_id.v.v, _cursus_payload_to_kwargs(item, sid))

CursusStep(st, item, sid) == CursusRound(st, item, sid, CursusKey(item))

\* The loop of _sync_cursus over the fetched records, from record k on; res is
\* the outcome of the rounds before k.
RECURSIVE CursusLoop(_, _, _, _)
CursusLoop(payloads, k, sid, res) ==
  IF k > Len(payloads) \/ ~res.ok THEN res
  ELSE CursusLoop(payloads, k + 1, sid, CursusStep(res.v, payloads[k], sid))

\* The DELETE of _sync_cursus on the flushed table: it also removes the rows
\* this cycle has inserted or moved under a deleted key.
CursusDelete(store, sid, st, flushed, kept) ==
  [ok |-> TRUE, store |-> [store EXCEPT !.cursus = kept],
   inserts |-> Len(st.added),
   deletes |-> BagCardinality(flushed) - BagCardinality(kept)]

\* The rows a DELETE that does not name the student leaves.
CursusKeptOfEveryStudent(sid, to_delete, flushed) ==
  [r \in {x \in DOMAIN flushed :
            ~(/\ x.forty_two_cursus_id # None
              /\ x.forty_two_cursus_id.v \in to_delete)} |-> flushed[r]]

\* The rows the DELETE leaves, with their counts.
CursusKept(sid, to_delete, flushed) ==
  [r \in {x \in DOMAIN flushed :
            ~(/\ x.student_id = sid
              /\ x.forty_two_cursus_id # None
              /\ x.forty_two_cursus_id.v \in to_delete)} |-> flushed[r]]

\* The end of _sync_cursus, st being the outcome of the loop and flushed the
\* table once the pending inserts and updates are flushed.
CursusFlush(store, sid, st, flushed) ==
  CursusDelete(store, sid, st, flushed,
               CursusKept(sid, DOMAIN st.map \ st.seen, flushed))

CursusOutcome(store, sid, cursus_map, loop) ==
  IF ~loop.ok THEN [ok |-> FALSE, status |-> 500, err |-> loop.err]
  ELSE CursusFlush(store, sid, loop.v,
         (store.cursus (-) BagOfValues(cursus_map, DOMAIN cursus_map))
           (+) BagOfValues(loop.v.map, DOMAIN cursus_map)
           (+) BagOfSeq(loop.v.added))

\* _sync_cursus with cursus_map as the SELECT gave it: the store the session
\* sees afterwards, or the exception.
_sync_cursus(store, sid, payloads, cursus_map) ==
  CursusOutcome(store, sid, cursus_map,
    CursusLoop(payloads, 1, sid,
               Ok([map |-> cursus_map, seen |-> {}, added |-> <<>>])))

----------------------------------------------------------------------------
(* sync.py: _fetch_all. The upstream is a script: its answer to the request *)
(* for page 1, 2, ...; past the end of the script it has nothing left and   *)
(* answers 200 with an empty page.                                          *)

PageSize == 100

Page(status, batch) == [status_code |-> status, batch |-> batch]
ResponseTo(upstream, page) ==
  IF page <= Len(upstream) THEN upstream[page] ELSE Page(200, <<>>)

RECURSIVE FetchLoop(_, _, _)
FetchLoop(upstream, page, aggregated) ==
  LET response == ResponseTo(upstream, page)
      batch == response.batch
  IN IF response.status_code # 200
     THEN [ok |-> FALSE, status |-> 502, err |-> "Failed to fetch data from 42 API",
           requests |-> page]
     ELSE IF Len(batch) = 0 THEN [ok |-> TRUE, v |-> aggregated, requests |-> page]
     ELSE IF Len(batch) < PageSize
     THEN [ok |-> TRUE, v |-> aggregated \o batch, requests |-> page]
     ELSE FetchLoop(upstream, page + 1, aggregated \o batch)

\* _fetch_all with `break` in the place of `raise`: a failed page ends the
\* loop and the records of the pages before it are returned.
RECURSIVE FetchLoopBreaking(_, _, _)
FetchLoopBreaking(upstream, page, aggregated) ==
  IF ResponseTo(upstream, page).status_code # 200 \/ Len(ResponseTo(upstream, page).batch) = 0
  THEN [ok |-> TRUE, v |-> aggregated, requests |-> page]
  ELSE IF Len(ResponseTo(upstream, page).batch) < PageSize
  THEN [ok |-> TRUE, v |-> aggregated \o ResponseTo(upstream, page).batch, requests |-> page]
  ELSE FetchLoopBreaking(upstream, page + 1, aggregated \o ResponseTo(upstream, page).batch)

_fetch_all_breaking(upstream) == FetchLoopBreaking(upstream, 1, <<>>)

\* _fetch_all: the aggregated records, or the 502 that ends the request.
_fetch_all(upstream) == FetchLoop(upstream, 1, <<>>)

----------------------------------------------------------------------------
(* The inputs: the profiles and the records the upstream API serves.       *)

\* The longest projects collection and curriculum collection served.
MaxProjects == 2
MaxCursus == 2
\* The most curriculum rows the store is let to hold.
MaxStoredCursus == 3

NameFt == <<"f", "t", "_", "l", "s">>
NameRush == <<"R", "u", "s", "h", " ", "4", "2">>
NamePiscine == <<"C", " ", "P", "i", "s", "c", "i", "n", "e">>

ProjectRecord(id, pid, name, status, validated, final_mark, marked_at) ==
  [id |-> id,
   project |-> [id |-> pid, name |-> name, slug |-> None],
   status |-> status, validated |-> validated,
   final_mark |-> final_mark, marked_at |-> marked_at]

StInProgress == S(<<"i", "n", "_", "p", "r", "o", "g", "r", "e", "s", "s">>)
StFinished == S(<<"f", "i", "n", "i", "s", "h", "e", "d">>)

P10 == ProjectRecord(I(10), I(1), S(NameFt), StInProgress, None, None, None)
P10Done ==
  ProjectRecord(I(10), I(1), S(NameFt), StFinished, B(TRUE), I(100), [t |-> "iso", v |-> 1])
P11 == ProjectRecord(I(11), I(2), S(NameRush), StInProgress, None, None, None)
P11Piscine == ProjectRecord(I(11), I(3), S(NamePiscine), StFinished, B(TRUE), I(80), None)
PNoId == ProjectRecord(None, I(1), S(NameFt), StInProgress, None, None, None)
PJunkId ==
  ProjectRecord(S(<<"a", "b", "c">>), I(1), S(NameFt), StInProgress, None, None, None)

\* A record whose project has a slug and no name.
PSlugPiscine ==
  [ProjectRecord(I(12), I(4), None, StFinished, B(TRUE), I(90), None)
     EXCEPT !.project.slug = S(<<"c", "-", "P", "I", "S", "C", "I", "N", "E", "-", "0">>)]

ProjectPayloads == {P10, P10Done, P11, P11Piscine, PSlugPiscine, PNoId, PJunkId}

CursusRecord(cursus_id, cursus, grade) ==
  [cursus_id |-> cursus_id, cursus |-> cursus, grade |-> grade,
   begin_at |-> [t |-> "iso", v |-> 1], end_at |-> None]

C5 == CursusRecord(I(5), [id |-> I(5), name |-> S("42cursus")], S("Member"))
C5Learner == CursusRecord(I(5), [id |-> I(5), name |-> S("42cursus")], S("Learner"))
C5As7 == CursusRecord(I(5), [id |-> I(7), name |-> S("Piscine C")], None)
CZero == CursusRecord(None, [id |-> I(0), name |-> S("zero")], None)
CNoId == CursusRecord(None, None, S("Member"))

CursusPayloads == {C5, C5Learner, C5As7, CZero, CNoId}

\* The sequences over `records` of at most n records.
Batches(records, n) == UNION {[1..k -> records] : k \in 0..n}

FullProjectPage ==
  [i \in 1..PageSize |->
     ProjectRecord(I(100 + i), I(9), S(NameFt), StFinished, B(TRUE), I(100), None)]

\* What the upstream can answer to the requests of one fetch.
ProjectUpstreams ==
  {<<Page(200, batch)>> : batch \in Batches(ProjectPayloads, MaxProjects)}
    \cup {<<Page(500, <<>>)>>, <<Page(200, FullProjectPage), Page(503, <<>>)>>}

CursusUpstreams ==
  {<<Page(200, batch)>> : batch \in Batches(CursusPayloads, MaxCursus)}
    \cup {<<Page(404, <<>>)>>}

\* The few answers for the collection a specification is not about.
FewProjectUpstreams ==
  {<<Page(200, <<>>)>>, <<Page(200, <<P10>>)>>, <<Page(500, <<>>)>>}
FewCursusUpstreams ==
  {<<Page(200, <<>>)>>, <<Page(200, <<C5>>)>>, <<Page(404, <<>>)>>}

Profile(id, login, displayname, email, link, campus) ==
  [id |-> id, login |-> login, displayname |-> displayname, usual_full_name |-> None,
   email |-> email, image |-> [t |-> "obj", link |-> link], campus |-> campus]

Alice ==
  Profile(I(1), S("alice"), S("Alice A"), S("alice@42.fr"), S("a.png"),
          <<[name |-> S("Heilbronn")]>>)
AliceRenamed == Profile(I(1), S("alice"), None, None, None, <<>>)
NoIdProfile == Profile(None, S("ghost"), None, None, None, <<>>)

Profiles == {Alice, AliceRenamed, NoIdProfile}

----------------------------------------------------------------------------
(* session.py: the signed tickets. URLSafeTimedSerializer signs the        *)
(* payload and the time of signing with a key derived from the secret and  *)
(* the salt. A token is                                                    *)
(*   shape    "signed", or what is wrong with its structure                *)
(*   payload  the JSON object it carries                                   *)
(*   ts       the time of signing it carries                               *)
(*   sig      the signature it carries: what the signer had for secret,    *)
(*            salt, payload and time (two signatures are equal only when   *)
(*            these are)                                                   *)
(***************************************************************************)

SESSION_SALT == "ft-session"
STATE_SALT == "ft-state"
STATE_TTL_SECONDS == 600
session_max_age == 604800

Settings == [session_secret |-> "secret", session_max_age |-> session_max_age]

Signature(secret_key, salt, payload, ts) ==
  [secret_key |-> secret_key, salt |-> salt, payload |-> payload, ts |-> ts]

_session_serializer(settings) ==
  [secret_key |-> settings.session_secret, salt |-> SESSION_SALT]

\* A state serializer that signs with the salt of the session serializer.
_state_serializer_with_session_salt(settings) ==
  [secret_key |-> settings.session_secret, salt |-> SESSION_SALT]

_state_serializer(settings) ==
  [secret_key |-> settings.session_secret, salt |-> STATE_SALT]

\* serializer.dumps(payload) at `time`.
dumps(serializer, payload, time) ==
  [shape |-> "signed", payload |-> payload, ts |-> time,
   sig |-> Signature(serializer.secret_key, serializer.salt, payload, time)]

\* serializer.loads(raw, max_age=max_age) at `time`: the payload, or the
\* exception. A token without separator, one whose signature does not match and
\* one without a readable time of signing are refused whatever their age; a
\* token older than max_age, or signed in the future, has expired.
loads(serializer, raw, max_age, time) ==
  IF raw.shape = "no separator" THEN Raise("BadSignature")
  ELSE IF raw.sig # Signature(serializer.secret_key, serializer.salt, raw.payload, raw.ts)
  THEN Raise(IF raw.shape = "signed" THEN "BadTimeSignature" ELSE "BadSignature")
  ELSE IF raw.shape # "signed" THEN Raise("BadTimeSignature")
  ELSE IF time - raw.ts > max_age \/ time - raw.ts < 0 THEN Raise("SignatureExpired")
  ELSE Ok(raw.payload)

\* `except (BadSignature, BadTimeSignature)`: SignatureExpired is a
\* BadTimeSignature, and a BadTimeSignature is a BadSignature.
IsBadSignature(err) == err \in {"BadSignature", "BadTimeSignature", "SignatureExpired"}

\* encode_session writing the login where the display name belongs.
encode_session_login_as_display_name(data, settings, time) ==
  dumps(_session_serializer(settings),
        [user |-> [id |-> data.user.id,
                   login |-> data.user.login,
                   display_name |-> data.user.login,
                   image_url |-> data.user.image_url],
         access_token |-> data.access_token,
         refresh_token |-> data.refresh_token,
         expires_at |-> data.expires_at,
         issued_at |-> I(time)],
        time)

\* encode_session at `time`
encode_session(data, settings, time) ==
  dumps(_session_serializer(settings),
        [user |-> [id |-> data.user.id,
                   login |-> data.user.login,
                   display_name |-> data.user.display_name,
                   image_url |-> data.user.image_url],
         access_token |-> data.access_token,
         refresh_token |-> data.refresh_token,
         expires_at |-> data.expires_at,
         issued_at |-> I(time)],
        time)

\* `key in obj` and obj.get(key) for a JSON object.
Has(obj, key) == key \in DOMAIN obj
Get(obj, key) == IF Has(obj, key) THEN obj[key] ELSE None

\* str(x)
Str(value) == IF value.t = "str" THEN value ELSE [t |-> "str", v |-> "str()", of |-> value]

\* payload.get("user") or {}
UserOf(payload) ==
  IF Get(payload, "user") = None THEN [x \in {} |-> None] ELSE payload.user

\* The UserProfile(...) of decode_session, or the exception one of its
\* arguments raises: they are evaluated in order. `id` is int(user_payload["id"]).
UserProfileOf(user_payload, id) ==
  IF ~Has(user_payload, "id") THEN Raise("KeyError")
  ELSE IF ~id.ok THEN id
  ELSE IF ~Has(user_payload, "login") THEN Raise("KeyError")
  ELSE Ok([id |-> I(id.v),
           login |-> Str(user_payload.login),
           display_name |-> Str(PyOr(Get(user_payload, "display_name"), S(""))),
           image_url |-> Get(user_payload, "image_url")])

\* The end of decode_session: `except (KeyError, TypeError, ValueError)`, then
\* the SessionData.
SessionDataOf(payload, user) ==
  IF ~user.ok
  THEN IF user.err \in {"KeyError", "TypeError", "ValueError"} THEN Ok(None) ELSE user
  ELSE Ok([user |-> user.v,
           access_token |-> Get(payload, "access_token"),
           refresh_token |-> Get(payload, "refresh_token"),
           expires_at |-> Get(payload, "expires_at")])

DecodedSession(payload) ==
  IF ~payload.ok
  THEN IF IsBadSignature(payload.err) THEN Ok(None) ELSE payload
  ELSE SessionDataOf(payload.v,
         UserProfileOf(UserOf(payload.v), IntCoerce(Get(UserOf(payload.v), "id"))))

\* decode_session at `time`: Ok(the SessionData), Ok(None), or the exception
\* that reaches the caller.
decode_session(raw, settings, time) ==
  DecodedSession(loads(_session_serializer(settings), raw, settings.session_max_age, time))

\* encode_state at `time`
encode_state(state, settings, time) ==
  dumps(_state_serializer(settings), [state |-> state], time)

\* The end of decode_state: `str(state) if isinstance(state, str) else None`.
DecodedState(payload) ==
  IF ~payload.ok
  THEN IF IsBadSignature(payload.err) THEN Ok(None) ELSE payload
  ELSE IF Get(payload.v, "state").t = "str" THEN Ok(payload.v.state)
  ELSE Ok(None)

\* decode_state with the max-age of the sessions.
decode_state_with_session_max_age(raw, settings, time) ==
  DecodedState(loads(_state_serializer(settings), raw, settings.session_max_age, time))

\* decode_state at `time`: Ok(the state), Ok(None), or the exception.
decode_state(raw, settings, time) ==
  DecodedState(loads(_state_serializer(settings), raw, STATE_TTL_SECONDS, time))

----------------------------------------------------------------------------
(* sync.py: sync_student_data, one step for each await of the cycle.       *)
(*   db    the committed store                                             *)
(*   tx    what the request's session sees: db and its uncommitted writes  *)
(*   pc    where the request stands                                        *)
(*   req   the locals of the request; `before` (the committed store when   *)
(*         the cycle began) is kept for the properties                     *)
(*   resp  how the cycle ended, and what it inserted and deleted           *)
(*   calls the requests the cycle has sent upstream, with their answers'   *)
(*         status, in order                                                *)
(*   last  the profile and the collections of the latest committed cycle,  *)
(*         where the commits are remembered                                *)
(*   now   the time, in seconds                                            *)
(*   tok   the ticket at hand, with how and when it was made               *)
(*   out   what decoding the ticket at hand gives now                      *)
(*   web   the browser's cookies and the callback request being served     *)
(***************************************************************************)
VARIABLES db, tx, pc, req, resp, calls, last, now, tok, out, web

vars == <<db, tx, pc, req, resp, calls, last, now, tok, out, web>>
syncVars == <<db, tx, pc, req, resp, calls, last>>
authVars == <<now, tok, out, web>>

NoReq ==
  [profile |-> NoIdProfile, sid |-> 0, before |-> EmptyStore,
   projects_payload |-> <<>>, cursus_payload |-> <<>>]

NoResp ==
  [status |-> 0, committed |-> FALSE, detail |-> "",
   project_inserts |-> 0, project_deletes |-> 0,
   cursus_inserts |-> 0, cursus_deletes |-> 0]

NoLast == [valid |-> FALSE, profile |-> NoIdProfile,
           projects_payload |-> <<>>, cursus_payload |-> <<>>]

\* The requests of one _fetch_all to `url` and the status of each answer.
Requests(url, upstream, requests) ==
  [page \in 1..requests |->
     [url |-> url, page |-> page, status_code |-> ResponseTo(upstream, page).status_code]]

\* A string that is no token: it has no separator.
NoToken == [shape |-> "no separator", payload |-> [x \in {} |-> None], ts |-> 0,
            sig |-> Signature("", "", [x \in {} |-> None], 0)]

NoTok == [raw |-> NoToken, by |-> "nobody", arg |-> None, at |-> 0]
NoOut == [fn |-> "none", unsigned |-> Raise("none"), result |-> Ok(None)]

NoCallback ==
  [code |-> None, state |-> None, cookie |-> None, before |-> EmptyStore,
   token |-> None, profile |-> NoIdProfile,
   status |-> 0, detail |-> "", set_session |-> None]

\* A logout or session request: the session cookie it carries, what
\* get_optional_session makes of it, and the response.
NoRequest ==
  [op |-> "none", cookie |-> None, session |-> Ok(None), status |-> 0,
   body |-> None, cleared |-> FALSE]

NoWeb == [jar |-> [state |-> None, session |-> None], cb |-> NoCallback, rq |-> NoRequest]

Init ==
  /\ db = EmptyStore
  /\ tx = EmptyStore
  /\ pc = "idle"
  /\ req = NoReq
  /\ resp = NoResp
  /\ calls = <<>>
  /\ last = NoLast
  /\ now = 0
  /\ tok = NoTok
  /\ out = NoOut
  /\ web = NoWeb

\* A session that commits when it is closed: the writes made so far are kept.
AbandonCommitting(status, detail) ==
  /\ db' = tx
  /\ tx' = tx
  /\ pc' = "done"
  /\ resp' = [resp EXCEPT !.status = status, !.detail = detail, !.committed = FALSE]
  /\ UNCHANGED <<req, last>>

\* An exception leaves sync_student_data before the commit: get_session closes
\* the session, which rolls the uncommitted writes back.
Abandon(status, detail) ==
  /\ tx' = db
  /\ pc' = "done"
  /\ resp' = [resp EXCEPT !.status = status, !.detail = detail, !.committed = FALSE]
  /\ UNCHANGED <<db, req, last>>

\* sync_student_data is called with a fetched profile:
\* `student = await _upsert_student(session, profile)`.
Upserted(profile, u) ==
  /\ req' = [NoReq EXCEPT !.profile = profile, !.before = db,
                          !.sid = IF u.ok THEN u.sid ELSE 0]
  /\ tx' = IF u.ok THEN u.store ELSE db
  /\ pc' = IF u.ok THEN "upserted" ELSE "done"
  /\ resp' = IF u.ok THEN NoResp
             ELSE [NoResp EXCEPT !.status = u.status, !.detail = u.err]
  /\ UNCHANGED <<db, calls, last>>

CallSync ==
  /\ pc = "idle"
  /\ \E profile \in Profiles : Upserted(profile, _upsert_student(db, profile))
  /\ UNCHANGED authVars

\* `projects_payload = await _fetch_all(...)`, the upstream answering with one
\* of `upstreams`.
FetchedProjects(f, upstream) ==
  /\ calls' = calls \o Requests("projects_users", upstream, f.requests)
  /\ IF f.ok
     THEN /\ req' = [req EXCEPT !.projects_payload = f.v]
          /\ pc' = "fetched_projects"
          /\ UNCHANGED <<db, tx, resp, last>>
     ELSE Abandon(f.status, f.err)

FetchProjectsFrom(upstreams) ==
  /\ pc = "upserted"
  /\ \E upstream \in upstreams : FetchedProjects(_fetch_all(upstream), upstream)
  /\ UNCHANGED authVars

\* `cursus_payload = await _fetch_all(...)`
FetchedCursus(f, upstream) ==
  /\ calls' = calls \o Requests("cursus_users", upstream, f.requests)
  /\ IF f.ok
     THEN /\ req' = [req EXCEPT !.cursus_payload = f.v]
          /\ pc' = "fetched_cursus"
          /\ UNCHANGED <<db, tx, resp, last>>
     ELSE Abandon(f.status, f.err)

FetchCursusFrom(upstreams) ==
  /\ pc = "fetched_projects"
  /\ \E upstream \in upstreams : FetchedCursus(_fetch_all(upstream), upstream)
  /\ UNCHANGED authVars

\* `await _sync_projects(session, student, projects_payload)`
SyncedProjects(r) ==
  /\ IF r.ok
     THEN /\ tx' = r.store
          /\ pc' = "synced_projects"
          /\ resp' = [resp EXCEPT !.project_inserts = r.inserts,
                                  !.project_deletes = r.deletes]
          /\ UNCHANGED <<db, req, last>>
     ELSE Abandon(r.status, r.err)
  /\ UNCHANGED calls

SyncProjects ==
  /\ pc = "fetched_cursus"
  /\ SyncedProjects(_sync_projects(tx, req.sid, req.projects_payload))
  /\ UNCHANGED authVars

\* `await _sync_cursus(session, student, cursus_payload)`
SyncedCursus(r) ==
  /\ IF r.ok
     THEN /\ BagCardinality(r.store.cursus) <= MaxStoredCursus
          /\ tx' = r.store
          /\ pc' = "synced_cursus"
          /\ resp' = [resp EXCEPT !.cursus_inserts = r.inserts,
                                  !.cursus_deletes = r.deletes]
          /\ UNCHANGED <<db, req, last>>
     ELSE Abandon(r.status, r.err)
  /\ UNCHANGED calls

SyncCursus ==
  /\ pc = "synced_projects"
  /\ \E cursus_map \in CursusMaps(tx, req.sid) :
       SyncedCursus(_sync_cursus(tx, req.sid, req.cursus_payload, cursus_map))
  /\ UNCHANGED authVars

\* `await session.commit()`; `remembered` is what `last` holds afterwards.
Committing(remembered) ==
  /\ pc = "synced_cursus"
  /\ db' = tx
  /\ pc' = "done"
  /\ resp' = [resp EXCEPT !.status = 200, !.committed = TRUE]
  /\ last' = remembered
  /\ UNCHANGED <<tx, req, calls>>
  /\ UNCHANGED authVars

Commit == Committing(last)

\* The commit, with the cycle's profile and collections remembered.
CommitRemembering ==
  Committing([valid |-> TRUE, profile |-> req.profile,
              projects_payload |-> req.projects_payload,
              cursus_payload |-> req.cursus_payload])

\* The request is cancelled at one of its awaits (the caller went away).
Cancel ==
  /\ pc \in {"upserted", "fetched_projects", "fetched_cursus",
             "synced_projects", "synced_cursus"}
  /\ Abandon(499, "cancelled")
  /\ UNCHANGED calls
  /\ UNCHANGED authVars

\* The response is sent; the request's session and locals are gone.
Finish ==
  /\ pc = "done"
  /\ pc' = "idle"
  /\ tx' = db
  /\ req' = NoReq
  /\ resp' = NoResp
  /\ calls' = <<>>
  /\ UNCHANGED <<db, last>>
  /\ UNCHANGED authVars

\* The cycle with every projects collection and few curriculum collections.
FetchProjects == FetchProjectsFrom(ProjectUpstreams)
FetchFewCursus == FetchCursusFrom(FewCursusUpstreams)

NextProjects ==
  \/ CallSync
  \/ FetchProjects
  \/ FetchFewCursus
  \/ SyncProjects
  \/ SyncCursus
  \/ Commit
  \/ Cancel
  \/ Finish

SpecProjects == Init /\ [][NextProjects]_vars

\* The cycle with every curriculum collection and few projects collections.
FetchFewProjects == FetchProjectsFrom(FewProjectUpstreams)
FetchCursus == FetchCursusFrom(CursusUpstreams)

NextCursus ==
  \/ CallSync
  \/ FetchFewProjects
  \/ FetchCursus
  \/ SyncProjects
  \/ SyncCursus
  \/ CommitRemembering
  \/ Cancel
  \/ Finish

SpecCursus == Init /\ [][NextCursus]_vars

----------------------------------------------------------------------------
(* sync.py: the cycles of two owners, one after the other, on one store.   *)
(* The upstream serves either owner the same few collections, so that a    *)
(* project id and a curriculum id can come to both.                        *)

Bob == Profile(I(2), S("bob"), S("Bob B"), None, None, <<>>)
Owners == {Alice, Bob}

OwnersProjectUpstreams ==
  {<<Page(200, <<>>)>>, <<Page(200, <<P10>>)>>, <<Page(200, <<P10Done>>)>>,
   <<Page(200, <<P11>>)>>}
OwnersCursusUpstreams ==
  {<<Page(200, <<>>)>>, <<Page(200, <<C5>>)>>, <<Page(200, <<C5Learner>>)>>}

CallSyncOfOwners ==
  /\ pc = "idle"
  /\ \E profile \in Owners : Upserted(profile, _upsert_student(db, profile))
  /\ UNCHANGED authVars

FetchOwnersProjects == FetchProjectsFrom(OwnersProjectUpstreams)
FetchOwnersCursus == FetchCursusFrom(OwnersCursusUpstreams)

NextOwners ==
  \/ CallSyncOfOwners
  \/ FetchOwnersProjects
  \/ FetchOwnersCursus
  \/ SyncProjects
  \/ SyncCursus
  \/ Commit
  \/ Cancel
  \/ Finish

SpecOwners == Init /\ [][NextOwners]_vars

----------------------------------------------------------------------------
(* sync.py: two cycles of one owner at the same time, each request with    *)
(* its own session (database.py: get_session). The engine is created with  *)
(* the isolation level of the database left as it is: a statement sees     *)
(* what is committed when it runs and what its own session has written; a  *)
(* row a session has updated or deleted, and a unique key it has inserted,  *)
(* is held until the session commits or rolls back, and a statement of      *)
(* another session on it waits. Here pc, req, tx and resp hold one value    *)
(* for each cycle:                                                          *)
(*   req[c]  the locals of the cycle: `loaded` the rows its SELECT gave,    *)
(*           by key, `st` the outcome of its loop, `unflushed` the table    *)
(*           whose pending inserts and updates are not flushed yet          *)
(*   tx[c]   the uncommitted writes of the cycle's session                  *)
(* and a curriculum row carries its primary key, `id`. Each of the two      *)
(* requests is followed to its response.                                    *)

Cycles == {1, 2}

\* What no step of the two cycles touches.
raceIdle == <<calls, last, now, tok, out, web>>

NoRows == [key \in {} |-> None]
NoSt == [map |-> NoRows, seen |-> {}, added |-> <<>>]

NoWrites ==
  [student |-> None, s_upd |-> None,
   p_ins |-> {}, p_upd |-> NoRows, p_del |-> {},
   c_ins |-> {}, c_upd |-> NoRows, c_del |-> {}]

NoRaceReq ==
  [profile |-> NoIdProfile, sid |-> 0, student |-> None,
   before |-> EmptyStore, projects_payload |-> <<>>, cursus_payload |-> <<>>,
   loaded |-> NoRows, st |-> NoSt, unflushed |-> "none"]

\* The owner's profile, as it is and as it is after a change upstream.
RaceProfiles == {Alice, AliceRenamed}

RaceProjectUpstreams ==
  {<<Page(200, <<>>)>>, <<Page(200, <<P10>>)>>, <<Page(200, <<P10Done>>)>>}
RaceCursusUpstreams ==
  {<<Page(200, <<>>)>>, <<Page(200, <<C5>>)>>, <<Page(200, <<C5Learner>>)>>}

\* The stores a cycle with the profile and the collections projects_payload and
\* cursus_payload can leave when it runs alone on `store`.
AloneCursus(p, sid, cursus_payload) ==
  IF ~p.ok THEN {}
  ELSE {_sync_cursus(p.store, sid, cursus_payload, cursus_map).store :
          cursus_map \in CursusMaps(p.store, sid)}

AloneProjects(u, projects_payload, cursus_payload) ==
  IF ~u.ok THEN {}
  ELSE AloneCursus(_sync_projects(u.store, u.sid, projects_payload), u.sid, cursus_payload)

Alone(store, profile, projects_payload, cursus_payload) ==
  AloneProjects(_upsert_student(store, profile), projects_payload, cursus_payload)

\* A store an earlier cycle has left, its curriculum row (with these
\* collections there is one at most) under the first primary key.
Identified(store) ==
  [store EXCEPT !.cursus =
     SetToBag({[f \in DOMAIN r \cup {"id"} |-> IF f = "id" THEN 1 ELSE r[f]] :
                 r \in DOMAIN store.cursus})]

\* The two cycles begin on the empty store, or on what one earlier cycle of
\* the owner has left.
InitRace ==
  /\ \E profile \in RaceProfiles, p \in RaceProjectUpstreams, q \in RaceCursusUpstreams :
       db \in {EmptyStore}
                \cup {Identified(store) :
                        store \in Alone(EmptyStore, profile,
                                        _fetch_all(p).v, _fetch_all(q).v)}
  /\ tx = [c \in Cycles |-> NoWrites]
  /\ pc = [c \in Cycles |-> "idle"]
  /\ req = [c \in Cycles |-> NoRaceReq]
  /\ resp = [c \in Cycles |-> NoResp]
  /\ calls = <<>>
  /\ last = NoLast
  /\ now = 0
  /\ tok = NoTok
  /\ out = NoOut
  /\ web = NoWeb

\* What a statement of the session with the writes w sees, and what the
\* commit of these writes leaves.
Applied(store, w) ==
  [students |-> IF w.student # None THEN Append(store.students, w.student)
                ELSE IF w.s_upd # None
                THEN [store.students EXCEPT ![w.s_upd.sid] = w.s_upd.row]
                ELSE store.students,
   projects |->
     {r \in store.projects :
        r.forty_two_project_user_id.v \notin w.p_del \cup DOMAIN w.p_upd}
       \cup {w.p_upd[key] : key \in DOMAIN w.p_upd} \cup w.p_ins,
   cursus |->
     SetToBag({r \in DOMAIN store.cursus : r.id \notin w.c_del \cup DOMAIN w.c_upd}
                \cup {w.c_upd[id] : id \in DOMAIN w.c_upd} \cup w.c_ins)]

\* The project keys and the curriculum rows the other sessions hold.
ProjectKeysHeld(w) ==
  {r.forty_two_project_user_id.v : r \in w.p_ins} \cup DOMAIN w.p_upd \cup w.p_del
ProjectKeysHeldByOthers(c) == UNION {ProjectKeysHeld(tx[o]) : o \in Cycles \ {c}}
CursusIdsHeldByOthers(c) ==
  UNION {DOMAIN tx[o].c_upd \cup tx[o].c_del : o \in Cycles \ {c}}

\* The primary keys in use, committed or not, and the k-th one that is free.
CursusIdsUsed ==
  {r.id : r \in DOMAIN db.cursus} \cup UNION {{r.id : r \in tx[c].c_ins} : c \in Cycles}
FreeId(used, k) ==
  CHOOSE n \in 1..(Cardinality(used) + k) :
    n \notin used /\ Cardinality((1..n) \ used) = k

\* The UPDATE the unit of work emits for a mapped object: the columns whose
\* value differs from the loaded one are set, on the row as it is now.
UpdatedRow(current, loaded, kwargs) ==
  [f \in DOMAIN current |->
     IF f \in DOMAIN kwargs /\ kwargs[f] # loaded[f] THEN kwargs[f] ELSE current[f]]

\* The exception leaves the cycle: the session is closed and rolls back.
RaceAbandon(c, status, detail) ==
  /\ tx' = [tx EXCEPT ![c] = NoWrites]
  /\ pc' = [pc EXCEPT ![c] = "done"]
  /\ resp' = [resp EXCEPT ![c] = [NoResp EXCEPT !.status = status, !.detail = detail]]
  /\ UNCHANGED <<db, req>>

\* _upsert_student: the SELECT, found being the ids it gives. The attributes
\* set on a student that is found are flushed before the next statement.
RaceBegun(c, profile, found) ==
  /\ req' = [req EXCEPT ![c] =
               [NoRaceReq EXCEPT
                  !.profile = profile,
                  !.before = db,
                  !.sid = IF found = {} THEN 0 ELSE CHOOSE i \in found : TRUE,
                  !.student = IF found = {} THEN None
                              ELSE db.students[CHOOSE i \in found : TRUE]]]
  /\ pc' = [pc EXCEPT ![c] = IF found = {} THEN "inserting" ELSE "upserted"]
  /\ UNCHANGED <<db, tx, resp>>

RaceBegin(c) ==
  /\ UNCHANGED raceIdle
  /\ pc[c] = "idle"
  /\ \E profile \in RaceProfiles : RaceBegun(c, profile, StudentIdsOf(db, profile.id))

\* _upsert_student: session.add and the flush. The INSERT waits while another
\* session holds the same forty_two_id uncommitted.
RaceFlushStudent(c) ==
  /\ UNCHANGED raceIdle
  /\ pc[c] = "inserting"
  /\ \A o \in Cycles \ {c} : tx[o].student = None
  /\ IF StudentIdsOf(db, req[c].profile.id) # {}
     THEN RaceAbandon(c, 500, "IntegrityError")
     ELSE /\ tx' = [tx EXCEPT ![c].student =
                      _upsert_student(db, req[c].profile)
                        .store.students[Len(db.students) + 1]]
          /\ req' = [req EXCEPT ![c].sid = Len(db.students) + 1]
          /\ pc' = [pc EXCEPT ![c] = "upserted"]
          /\ UNCHANGED <<db, resp>>

RaceFetchedProjects(c, f) ==
  IF f.ok
  THEN /\ req' = [req EXCEPT ![c].projects_payload = f.v]
       /\ pc' = [pc EXCEPT ![c] = "fetched_projects"]
       /\ UNCHANGED <<db, tx, resp>>
  ELSE RaceAbandon(c, f.status, f.err)

RaceFetchProjects(c) ==
  /\ UNCHANGED raceIdle
  /\ pc[c] = "upserted"
  /\ \E upstream \in RaceProjectUpstreams : RaceFetchedProjects(c, _fetch_all(upstream))

RaceFetchedCursus(c, f) ==
  IF f.ok
  THEN /\ req' = [req EXCEPT ![c].cursus_payload = f.v]
       /\ pc' = [pc EXCEPT ![c] = "fetched_cursus"]
       /\ UNCHANGED <<db, tx, resp>>
  ELSE RaceAbandon(c, f.status, f.err)

RaceFetchCursus(c) ==
  /\ UNCHANGED raceIdle
  /\ pc[c] = "fetched_projects"
  /\ \E upstream \in RaceCursusUpstreams : RaceFetchedCursus(c, _fetch_all(upstream))

\* The SELECT of _sync_projects or _sync_cursus and the loop after it, which
\* awaits nothing: `loaded` is the map as the SELECT gave it, loop the outcome
\* of the loop.
RaceLooped(c, table, loaded, loop, w) ==
  IF ~loop.ok THEN RaceAbandon(c, 500, loop.err)
  ELSE /\ req' = [req EXCEPT ![c].loaded = loaded, ![c].st = loop.v,
                             ![c].unflushed = table]
       /\ pc' = [pc EXCEPT ![c] = IF table = "projects" THEN "projects_looped"
                                  ELSE "cursus_looped"]
       /\ tx' = [tx EXCEPT ![c] = w]
       /\ UNCHANGED <<db, resp>>

\* The row _upsert_student makes of the profile, for a student that is found.
StudentKwargs(profile, sid) == _upsert_student(db, profile).store.students[sid]

\* The flush of the attributes _upsert_student has set on a student it found:
\* no UPDATE when none differs from the loaded one.
StudentFlushed(w, profile, sid, loaded) ==
  IF loaded = None \/ StudentKwargs(profile, sid) = loaded THEN w
  ELSE [w EXCEPT !.s_upd =
          [sid |-> sid,
           row |-> UpdatedRow(db.students[sid], loaded, StudentKwargs(profile, sid))]]

RaceSelectedProjects(c, w) ==
  RaceLooped(c, "projects", ProjectMap(Applied(db, w), req[c].sid),
    ProjectLoop(req[c].projects_payload, 1, req[c].sid,
                Ok([map |-> ProjectMap(Applied(db, w), req[c].sid),
                    seen |-> {}, added |-> <<>>])),
    w)

\* The SELECT of _sync_projects, after the flush of the student: its UPDATE
\* waits while another session holds the row.
RaceSelectProjects(c) ==
  /\ UNCHANGED raceIdle
  /\ pc[c] = "fetched_cursus"
  /\ \/ StudentFlushed(tx[c], req[c].profile, req[c].sid, req[c].student).s_upd = None
     \/ \A o \in Cycles \ {c} : tx[o].s_upd = None
  /\ RaceSelectedProjects(c, StudentFlushed(tx[c], req[c].profile, req[c].sid,
                                            req[c].student))

\* The keys the flush of the projects writes, and whether it can go on.
ProjectKeysFlushed(st) ==
  (DOMAIN st.map \cap st.seen) \cup {st.added[k].forty_two_project_user_id.v : k \in 1..Len(st.added)}

\* The flush of the pending project updates and inserts of the cycle: the
\* writes of the session afterwards, or the exception.
ProjectsFlushed(w, st, loaded) ==
  IF \E key \in DOMAIN st.map \cap st.seen :
       \A r \in db.projects : r.forty_two_project_user_id.v # key
  THEN Raise("StaleDataError")
  ELSE IF ~ProjectInsertsAllowed(db.projects, st.added)
  THEN Raise("IntegrityError")
  ELSE Ok([w EXCEPT
             !.p_upd = [key \in DOMAIN st.map \cap st.seen |->
                          UpdatedRow(CHOOSE r \in db.projects :
                                       r.forty_two_project_user_id.v = key,
                                     loaded[key], st.map[key])],
             !.p_ins = {st.added[k] : k \in 1..Len(st.added)}])

\* The DELETE of _sync_projects, after the flush that comes before it.
ProjectsDeleted(w, sid, to_delete) ==
  [w EXCEPT !.p_del = {r.forty_two_project_user_id.v :
                         r \in {x \in db.projects :
                                  /\ x.student_id = sid
                                  /\ x.forty_two_project_user_id.v \in to_delete}}]

RaceDeletedProjects(c, flushed) ==
  IF ~flushed.ok THEN RaceAbandon(c, 500, flushed.err)
  ELSE /\ tx' = [tx EXCEPT ![c] =
                   ProjectsDeleted(flushed.v, req[c].sid,
                                   DOMAIN req[c].st.map \ req[c].st.seen)]
       /\ req' = [req EXCEPT ![c].unflushed = "none"]
       /\ pc' = [pc EXCEPT ![c] = "projects_synced"]
       /\ UNCHANGED <<db, resp>>

RaceDeleteProjects(c) ==
  /\ UNCHANGED raceIdle
  /\ pc[c] = "projects_looped"
  /\ DOMAIN req[c].st.map \ req[c].st.seen # {}
  /\ (ProjectKeysFlushed(req[c].st) \cup DOMAIN req[c].st.map)
       \cap ProjectKeysHeldByOthers(c) = {}
  /\ RaceDeletedProjects(c, ProjectsFlushed(tx[c], req[c].st, req[c].loaded))

\* The SELECT of _sync_cursus (the dictionary is one of cursus_maps) and its
\* loop; flushed is the outcome of the flush of the projects before the
\* SELECT, when they were pending.
RaceSelectedCursus(c, flushed, cursus_maps) ==
  IF ~flushed.ok THEN RaceAbandon(c, 500, flushed.err)
  ELSE \E cursus_map \in cursus_maps :
         /\ RaceLooped(c, "cursus", cursus_map,
              CursusLoop(req[c].cursus_payload, 1, req[c].sid,
                         Ok([map |-> cursus_map, seen |-> {}, added |-> <<>>])),
              flushed.v)

RaceSelectCursus(c) ==
  /\ UNCHANGED raceIdle
  /\ \/ /\ pc[c] = "projects_looped"
        /\ DOMAIN req[c].st.map \ req[c].st.seen = {}
        /\ ProjectKeysFlushed(req[c].st) \cap ProjectKeysHeldByOthers(c) = {}
        /\ RaceSelectedCursus(c, ProjectsFlushed(tx[c], req[c].st, req[c].loaded),
             IF ProjectsFlushed(tx[c], req[c].st, req[c].loaded).ok
             THEN CursusMaps(Applied(db, ProjectsFlushed(tx[c], req[c].st, req[c].loaded).v),
                             req[c].sid)
             ELSE {})
     \/ /\ pc[c] = "projects_synced"
        /\ RaceSelectedCursus(c, Ok(tx[c]), CursusMaps(Applied(db, tx[c]), req[c].sid))

\* The primary keys of the rows the flush of the curriculum updates, and the
\* key under which the loop holds the row of a primary key.
CursusIdsFlushed(st, loaded) == {loaded[key].id : key \in DOMAIN st.map \cap st.seen}
KeyOfId(loaded, id) == CHOOSE key \in DOMAIN loaded : loaded[key].id = id

\* The flush of the pending curriculum updates and inserts of the cycle.
CursusFlushed(w, st, loaded) ==
  IF \E key \in DOMAIN st.map \cap st.seen :
       \A r \in DOMAIN db.cursus : r.id # loaded[key].id
  THEN Raise("StaleDataError")
  ELSE Ok([w EXCEPT
             !.c_upd = [id \in CursusIdsFlushed(st, loaded) |->
                          UpdatedRow(CHOOSE r \in DOMAIN db.cursus : r.id = id,
                                     loaded[KeyOfId(loaded, id)],
                                     st.map[KeyOfId(loaded, id)])],
             !.c_ins = {[f \in DOMAIN st.added[k] \cup {"id"} |->
                           IF f = "id" THEN FreeId(CursusIdsUsed, k) ELSE st.added[k][f]] :
                          k \in 1..Len(st.added)}])

\* The rows of the student whose key is in to_delete, as a statement of the
\* session with the writes w sees them.
CursusToDelete(w, sid, to_delete) ==
  {r \in DOMAIN Applied(db, w).cursus :
     /\ r.student_id = sid
     /\ r.forty_two_cursus_id # None
     /\ r.forty_two_cursus_id.v \in to_delete}

\* The DELETE of _sync_cursus, after the flush that comes before it.
CursusDeleted(w, doomed) ==
  [w EXCEPT
     !.c_del = {r.id : r \in doomed} \ {r.id : r \in w.c_ins},
     !.c_upd = [id \in DOMAIN w.c_upd \ {r.id : r \in doomed} |-> w.c_upd[id]],
     !.c_ins = w.c_ins \ doomed]

RaceDeletedCursus(c, flushed) ==
  IF ~flushed.ok THEN RaceAbandon(c, 500, flushed.err)
  ELSE /\ {r.id : r \in CursusToDelete(flushed.v, req[c].sid,
                                       DOMAIN req[c].st.map \ req[c].st.seen)}
            \cap CursusIdsHeldByOthers(c) = {}
       /\ tx' = [tx EXCEPT ![c] =
                   CursusDeleted(flushed.v,
                     CursusToDelete(flushed.v, req[c].sid,
                                    DOMAIN req[c].st.map \ req[c].st.seen))]
       /\ req' = [req EXCEPT ![c].unflushed = "none"]
       /\ pc' = [pc EXCEPT ![c] = "cursus_synced"]
       /\ UNCHANGED <<db, resp>>

RaceDeleteCursus(c) ==
  /\ UNCHANGED raceIdle
  /\ pc[c] = "cursus_looped"
  /\ DOMAIN req[c].st.map \ req[c].st.seen # {}
  /\ CursusIdsFlushed(req[c].st, req[c].loaded) \cap CursusIdsHeldByOthers(c) = {}
  /\ RaceDeletedCursus(c, CursusFlushed(tx[c], req[c].st, req[c].loaded))

\* `await session.commit()`: what is still pending is flushed, and the writes
\* of the session become the committed store.
RaceCommitted(c, flushed) ==
  IF ~flushed.ok THEN RaceAbandon(c, 500, flushed.err)
  ELSE /\ db' = Applied(db, flushed.v)
       /\ tx' = [tx EXCEPT ![c] = NoWrites]
       /\ pc' = [pc EXCEPT ![c] = "done"]
       /\ resp' = [resp EXCEPT ![c] = [NoResp EXCEPT !.status = 200, !.committed = TRUE]]
       /\ UNCHANGED req

RaceCommit(c) ==
  /\ UNCHANGED raceIdle
  /\ \/ /\ pc[c] = "cursus_looped"
        /\ DOMAIN req[c].st.map \ req[c].st.seen = {}
        /\ CursusIdsFlushed(req[c].st, req[c].loaded) \cap CursusIdsHeldByOthers(c) = {}
        /\ RaceCommitted(c, CursusFlushed(tx[c], req[c].st, req[c].loaded))
     \/ /\ pc[c] = "cursus_synced"
        /\ RaceCommitted(c, Ok(tx[c]))

NextRace ==
  \E c \in Cycles :
    \/ RaceBegin(c)
    \/ RaceFlushStudent(c)
    \/ RaceFetchProjects(c)
    \/ RaceFetchCursus(c)
    \/ RaceSelectProjects(c)
    \/ RaceDeleteProjects(c)
    \/ RaceSelectCursus(c)
    \/ RaceDeleteCursus(c)
    \/ RaceCommit(c)

SpecRace == InitRace /\ [][NextRace]_vars

----------------------------------------------------------------------------
(* sync.py: _fetch_all at work, one step for each `await client.get`.       *)
(*   req    the upstream and the locals of _fetch_all: page, aggregated     *)
(*   calls  the requests sent, with page[number], page[size] and the        *)
(*          status of the answer                                            *)
(*   out    what _fetch_all returns or raises                               *)

\* The longest script of an upstream.
MaxFetchPages == 3

\* Record i of page p of a scripted upstream: ids come again within a page
\* and from page to page.
ScriptedRecord(p, i) == [id |-> I((p + i) % 3), page |-> p]
ScriptedPages(p) ==
  {Page(503, <<>>)}
    \cup {Page(200, [i \in 1..n |-> ScriptedRecord(p, i)]) : n \in {0, 1, 99, 100}}
Scripts ==
  UNION {{script \in [1..n -> UNION {ScriptedPages(p) : p \in 1..n}] :
            \A p \in 1..n : script[p] \in ScriptedPages(p)} : n \in 1..MaxFetchPages}

\* A collection that stays fixed at n records, served in pages of page_size.
ServedInPages(n, page_size) ==
  [p \in 1..((n \div page_size) + 1) |->
     Page(200, [i \in 1..(IF p * page_size <= n THEN page_size
                          ELSE n - (p - 1) * page_size) |->
                  [id |-> I((p - 1) * page_size + i), page |-> p]])]
CollectionSizes == {0, 1, 99, 100, 101, 199, 200, 201}

NoFetchReq == [upstream |-> <<>>, fixed |-> -1, page |-> 1, aggregated |-> <<>>]

InitFetch ==
  /\ db = EmptyStore
  /\ tx = EmptyStore
  /\ pc = "fetching"
  /\ \/ \E script \in Scripts : req = [NoFetchReq EXCEPT !.upstream = script]
     \/ \E n \in CollectionSizes :
          req = [NoFetchReq EXCEPT !.upstream = ServedInPages(n, PageSize), !.fixed = n]
  /\ resp = NoResp
  /\ calls = <<>>
  /\ last = NoLast
  /\ now = 0
  /\ tok = NoTok
  /\ out = NoOut
  /\ web = NoWeb

\* aggregated.extend(batch), or the last batch alone.
ExtendedByReplacing(aggregated, batch) == batch
Extended(aggregated, batch) == aggregated \o batch

\* `len(batch) < 100`, or never.
ShortPageNever(batch) == FALSE
ShortPage(batch) == Len(batch) < PageSize

\* One round of the loop of _fetch_all, response being the answer to the
\* request for req.page.
GotPage(response) ==
  /\ calls' = Append(calls, [url |-> "collection", page |-> req.page, size |-> PageSize,
                             status_code |-> response.status_code])
  /\ IF response.status_code # 200
     THEN /\ out' = [fn |-> "_fetch_all", unsigned |-> Raise("none"),
                     result |-> [ok |-> FALSE, status |-> 502,
                                 err |-> "Failed to fetch data from 42 API"]]
          /\ pc' = "done"
          /\ UNCHANGED req
     ELSE IF Len(response.batch) = 0
     THEN /\ out' = [fn |-> "_fetch_all", unsigned |-> Raise("none"),
                     result |-> Ok(req.aggregated)]
          /\ pc' = "done"
          /\ UNCHANGED req
     ELSE IF ShortPage(response.batch)
     THEN /\ out' = [fn |-> "_fetch_all", unsigned |-> Raise("none"),
                     result |-> Ok(Extended(req.aggregated, response.batch))]
          /\ pc' = "done"
          /\ req' = [req EXCEPT !.aggregated = Extended(req.aggregated, response.batch)]
     ELSE /\ req' = [req EXCEPT !.aggregated = Extended(req.aggregated, response.batch),
                                !.page = req.page + 1]
          /\ UNCHANGED <<out, pc>>

GetPage ==
  /\ pc = "fetching"
  /\ GotPage(ResponseTo(req.upstream, req.page))
  /\ UNCHANGED <<db, tx, resp, last, now, tok, web>>

SpecFetch == InitFetch /\ [][GetPage]_vars

----------------------------------------------------------------------------
(* session.py at work: tickets are made, altered, aged and decoded.        *)

\* The session data callback can build: an integer id, a string login and
\* display name, and optional avatar, tokens and expiry.
SessionOf(id, login, display_name, image_url, access_token, refresh_token, expires_at) ==
  [user |-> [id |-> id, login |-> login, display_name |-> display_name,
             image_url |-> image_url],
   access_token |-> access_token, refresh_token |-> refresh_token,
   expires_at |-> expires_at]

SessionDatas ==
  {SessionOf(I(7), S("alice"), S("Alice A"), S("a.png"), S("at"), S("rt"), I(1700)),
   SessionOf(I(0), S(""), S(""), None, None, None, None)}

\* Session payloads of another shape than encode_session writes.
ShapedPayloads ==
  {[user |-> [login |-> S("alice")]],
   [user |-> [id |-> None, login |-> S("alice")]],
   [user |-> [id |-> S(<<"a", "b">>), login |-> S("alice")]],
   [user |-> [id |-> [t |-> "inf"], login |-> S("alice")]],
   [user |-> [id |-> I(7)]],
   [access_token |-> S("at")],
   [user |-> [id |-> S(<<" ", "1", "2">>), login |-> None]]}

States == {S("s1"), S("s2")}

\* The instants the clock shows: around the two TTLs.
Instants ==
  {0, 1, STATE_TTL_SECONDS, STATE_TTL_SECONDS + 1, session_max_age, session_max_age + 1}

\* What somebody without the secret can make of a token at `time`: cut it, give
\* it another time of signing or another payload, or sign with a guessed key.
Alterations(raw, time) ==
  {[raw EXCEPT !.shape = "no separator"],
   [raw EXCEPT !.shape = "no timestamp"],
   [raw EXCEPT !.ts = IF raw.ts = time THEN time + 1 ELSE time],
   [raw EXCEPT !.payload = [state |-> S("s1"), user |-> [id |-> I(1), login |-> S("root")],
                            forged |-> B(TRUE)]],
   dumps([secret_key |-> "guess", salt |-> SESSION_SALT], raw.payload, time),
   dumps([secret_key |-> "guess", salt |-> STATE_SALT], raw.payload, time)}

\* Those of them that are not, by chance, a token the secret has signed.
Forgeries(raw, time) ==
  {f \in Alterations(raw, time) :
     \/ f.shape # "signed"
     \/ /\ f.sig # Signature(Settings.session_secret, SESSION_SALT, f.payload, f.ts)
        /\ f.sig # Signature(Settings.session_secret, STATE_SALT, f.payload, f.ts)}

EncodeSession ==
  /\ pc = "idle"
  /\ \E data \in SessionDatas :
       tok' = [raw |-> encode_session(data, Settings, now), by |-> "encode_session",
               arg |-> data, at |-> now]
  /\ out' = NoOut
  /\ UNCHANGED <<now, web>>
  /\ UNCHANGED syncVars

EncodeState ==
  /\ pc = "idle"
  /\ \E state \in States :
       tok' = [raw |-> encode_state(state, Settings, now), by |-> "encode_state",
               arg |-> state, at |-> now]
  /\ out' = NoOut
  /\ UNCHANGED <<now, web>>
  /\ UNCHANGED syncVars

\* A holder of the secret signs a session payload of another shape.
SignSession ==
  /\ pc = "idle"
  /\ \E payload \in ShapedPayloads :
       tok' = [raw |-> dumps(_session_serializer(Settings), payload, now), by |-> "signed",
               arg |-> None, at |-> now]
  /\ out' = NoOut
  /\ UNCHANGED <<now, web>>
  /\ UNCHANGED syncVars

Forge ==
  /\ pc = "idle"
  /\ \E raw \in Forgeries(tok.raw, now) :
       tok' = [raw |-> raw, by |-> "forged", arg |-> None, at |-> now]
  /\ out' = NoOut
  /\ UNCHANGED <<now, web>>
  /\ UNCHANGED syncVars

Tick ==
  /\ pc = "idle"
  /\ \E time \in Instants : time > now /\ now' = time
  /\ out' = NoOut
  /\ UNCHANGED <<tok, web>>
  /\ UNCHANGED syncVars

DecodeSession ==
  /\ pc = "idle"
  /\ out' = [fn |-> "decode_session",
             unsigned |-> loads(_session_serializer(Settings), tok.raw,
                                Settings.session_max_age, now),
             result |-> decode_session(tok.raw, Settings, now)]
  /\ UNCHANGED <<now, tok, web>>
  /\ UNCHANGED syncVars

DecodeState ==
  /\ pc = "idle"
  /\ out' = [fn |-> "decode_state",
             unsigned |-> loads(_state_serializer(Settings), tok.raw,
                                STATE_TTL_SECONDS, now),
             result |-> decode_state(tok.raw, Settings, now)]
  /\ UNCHANGED <<now, tok, web>>
  /\ UNCHANGED syncVars

NextSession ==
  \/ EncodeSession
  \/ EncodeState
  \/ SignSession
  \/ Forge
  \/ Tick
  \/ DecodeSession
  \/ DecodeState

SpecSession == Init /\ [][NextSession]_vars

----------------------------------------------------------------------------
(* main.py: login and callback, one step for each await of callback.       *)

\* A cookie holding a token.
CookieOf(raw) == [t |-> "token", raw |-> raw]

\* The code and state parameters a callback request can carry.
Codes == {None, S(""), S("code")}
StateParams == {None, S("")} \cup States

\* The state cookies a callback request can carry: none, an empty one, the
\* ones of the browser's jar (the session cookie in the place of the state
\* cookie too), and what can be made of the jar's state cookie without the
\* secret.
StateCookies(jar, time) ==
  {None, S(""), jar.state, jar.session}
    \cup (IF jar.state = None THEN {CookieOf(NoToken)}
          ELSE {CookieOf(f) : f \in Forgeries(jar.state.raw, time)})

\* login: the state of the authorization URL goes, signed, into the state cookie.
Login ==
  /\ pc = "idle"
  /\ \E state \in States :
       web' = [web EXCEPT !.jar.state = CookieOf(encode_state(state, Settings, now))]
  /\ UNCHANGED <<now, tok, out>>
  /\ UNCHANGED syncVars

\* callback with the state cookie decoded only for its absence.
CallbackChecksForAnyState(code, state, state_cookie, original_state) ==
  IF ~Truthy(code) \/ ~Truthy(state)
  THEN [status |-> 400, detail |-> "Missing OAuth parameters"]
  ELSE IF ~Truthy(state_cookie)
  THEN [status |-> 400, detail |-> "OAuth state cookie missing"]
  ELSE IF ~original_state.ok
  THEN [status |-> 500, detail |-> original_state.err]
  ELSE IF original_state.v = None
  THEN [status |-> 400, detail |-> "OAuth state mismatch"]
  ELSE [status |-> 0, detail |-> ""]

\* The checks callback begins with, original_state being what decode_state
\* makes of the state cookie: the response that ends the request, or status 0.
CallbackChecks(code, state, state_cookie, original_state) ==
  IF ~Truthy(code) \/ ~Truthy(state)
  THEN [status |-> 400, detail |-> "Missing OAuth parameters"]
  ELSE IF ~Truthy(state_cookie)
  THEN [status |-> 400, detail |-> "OAuth state cookie missing"]
  ELSE IF ~original_state.ok
  THEN [status |-> 500, detail |-> original_state.err]
  ELSE IF original_state.v # state
  THEN [status |-> 400, detail |-> "OAuth state mismatch"]
  ELSE [status |-> 0, detail |-> ""]

\* decode_state(state_cookie, settings), reached only with a cookie that is
\* not empty.
OriginalState(state_cookie, time) ==
  IF Truthy(state_cookie) THEN decode_state(state_cookie.raw, Settings, time)
  ELSE Ok(None)

Checked(code, state, state_cookie, checks) ==
  /\ web' = [web EXCEPT !.cb = [NoCallback EXCEPT !.code = code, !.state = state,
                                                  !.cookie = state_cookie,
                                                  !.before = db,
                                                  !.status = checks.status,
                                                  !.detail = checks.detail]]
  /\ pc' = IF checks.status = 0 THEN "exchange" ELSE "responded"

\* A callback request arrives.
Callback ==
  /\ pc = "idle"
  /\ \E code \in Codes, state \in StateParams, state_cookie \in StateCookies(web.jar, now) :
       Checked(code, state, state_cookie,
               CallbackChecks(code, state, state_cookie, OriginalState(state_cookie, now)))
  /\ UNCHANGED <<db, tx, req, resp, calls, last, now, tok, out>>

\* What the token endpoint answers to the code.
OAuthToken == [access_token |-> S("at"), refresh_token |-> S("rt"), expires_at |-> I(7200)]
TokenOutcomes == {Ok(OAuthToken), Raise("OAuthError")}

\* `token = await client.fetch_token(code=code)`
FetchToken ==
  /\ pc = "exchange"
  /\ \E outcome \in TokenOutcomes :
       /\ calls' = Append(calls, [url |-> "oauth/token", page |-> 0,
                                  status_code |-> IF outcome.ok THEN 200 ELSE 401])
       /\ web' = IF outcome.ok THEN [web EXCEPT !.cb.token = outcome.v]
                 ELSE [web EXCEPT !.cb.status = 400, !.cb.detail = "Failed to fetch tokens"]
       /\ pc' = IF outcome.ok THEN "userinfo" ELSE "responded"
  /\ UNCHANGED <<db, tx, req, resp, last, now, tok, out>>

\* What the profile endpoint answers.
UserResponses ==
  {[status_code |-> 200, profile |-> profile] : profile \in Profiles}
    \cup {[status_code |-> 401, profile |-> NoIdProfile]}

\* The profile fetch without the check of the answer's status.
FetchUserWhateverTheStatus ==
  /\ pc = "userinfo"
  /\ \E user_response \in UserResponses :
       /\ calls' = Append(calls, [url |-> "v2/me", page |-> 0,
                                  status_code |-> user_response.status_code])
       /\ web' = [web EXCEPT !.cb.profile = user_response.profile]
       /\ pc' = "profile"
  /\ UNCHANGED <<db, tx, req, resp, last, now, tok, out>>

\* `user_response = await client.get(FORTY_TWO_USERINFO_URL)`
FetchUser ==
  /\ pc = "userinfo"
  /\ \E user_response \in UserResponses :
       /\ calls' = Append(calls, [url |-> "v2/me", page |-> 0,
                                  status_code |-> user_response.status_code])
       /\ web' = IF user_response.status_code = 200
                 THEN [web EXCEPT !.cb.profile = user_response.profile]
                 ELSE [web EXCEPT !.cb.status = 400,
                                  !.cb.detail = "Failed to fetch user profile"]
       /\ pc' = IF user_response.status_code = 200 THEN "profile" ELSE "responded"
  /\ UNCHANGED <<db, tx, req, resp, last, now, tok, out>>

\* `await sync_student_data(db, client, profile)`: its first step.
CallbackSync ==
  /\ pc = "profile"
  /\ Upserted(web.cb.profile, _upsert_student(db, web.cb.profile))
  /\ UNCHANGED authVars

\* The SessionData callback builds from the profile and the token.
SessionFor(profile, token) ==
  SessionOf(profile.id, profile.login,
            PyOr(PyOr(profile.displayname, profile.usual_full_name), profile.login),
            ImageLink(profile),
            token.access_token, token.refresh_token, token.expires_at)

\* The end of callback that sets the session cookie whatever became of the
\* sync.
RedirectWithoutTheSync ==
  /\ pc = "done"
  /\ web' = [jar |-> [state |-> None,
                      session |-> CookieOf(encode_session(
                                    SessionFor(web.cb.profile, web.cb.token),
                                    Settings, now))],
             rq |-> web.rq,
             cb |-> [web.cb EXCEPT !.status = 302,
                                   !.set_session = CookieOf(encode_session(
                                      SessionFor(web.cb.profile, web.cb.token),
                                      Settings, now))]]
  /\ pc' = "responded"
  /\ UNCHANGED <<db, tx, req, resp, calls, last, now, tok, out>>

\* The end of callback with the state cookie left in the browser.
RedirectKeepingStateCookie ==
  /\ pc = "done"
  /\ web' = IF resp.committed
            THEN [jar |-> [state |-> web.jar.state,
                           session |-> CookieOf(encode_session(
                                         SessionFor(web.cb.profile, web.cb.token),
                                         Settings, now))],
                  rq |-> web.rq,
                  cb |-> [web.cb EXCEPT !.status = 302,
                                        !.set_session = CookieOf(encode_session(
                                           SessionFor(web.cb.profile, web.cb.token),
                                           Settings, now))]]
            ELSE [web EXCEPT !.cb.status = resp.status, !.cb.detail = resp.detail]
  /\ pc' = "responded"
  /\ UNCHANGED <<db, tx, req, resp, calls, last, now, tok, out>>

\* The end of callback: after the sync has committed the session cookie is set
\* and the state cookie deleted; an exception of the sync is the response.
Redirect ==
  /\ pc = "done"
  /\ web' = IF resp.committed
            THEN [jar |-> [state |-> None,
                           session |-> CookieOf(encode_session(
                                         SessionFor(web.cb.profile, web.cb.token),
                                         Settings, now))],
                  rq |-> web.rq,
                  cb |-> [web.cb EXCEPT !.status = 302,
                                        !.set_session = CookieOf(encode_session(
                                           SessionFor(web.cb.profile, web.cb.token),
                                           Settings, now))]]
            ELSE [web EXCEPT !.cb.status = resp.status, !.cb.detail = resp.detail]
  /\ pc' = "responded"
  /\ UNCHANGED <<db, tx, req, resp, calls, last, now, tok, out>>

\* The response is sent; the request's session and locals are gone.
Served ==
  /\ pc = "responded"
  /\ pc' = "idle"
  /\ tx' = db
  /\ req' = NoReq
  /\ resp' = NoResp
  /\ calls' = <<>>
  /\ web' = [web EXCEPT !.cb = NoCallback, !.rq = NoRequest]
  /\ UNCHANGED <<db, last, now, tok, out>>

NextCallback ==
  \/ Tick
  \/ Login
  \/ Callback
  \/ FetchToken
  \/ FetchUser
  \/ CallbackSync
  \/ FetchFewProjects
  \/ FetchFewCursus
  \/ SyncProjects
  \/ SyncCursus
  \/ Commit
  \/ Cancel
  \/ Redirect
  \/ Served

SpecCallback == Init /\ [][NextCallback]_vars

----------------------------------------------------------------------------
(* sync.py: the mappers at work on project names.                          *)

\* The longest name tried.
MaxNameLen == 4

\* The characters of the names: a letter, a blank, and digits.
NameChars == {"a", " ", "0", "1", "9"}

\* The names a project can come with: none, and the strings of at most
\* MaxNameLen characters.
Names == {None} \cup {S(s) : s \in UNION {[1..n -> NameChars] : n \in 0..MaxNameLen}}

InitNames ==
  /\ db = EmptyStore
  /\ tx = EmptyStore
  /\ pc = "idle"
  /\ req = NoReq
  /\ resp = NoResp
  /\ calls = <<>>
  /\ last = NoLast
  /\ now = 0
  /\ \E name \in Names : tok = [NoTok EXCEPT !.arg = name]
  /\ out = NoOut
  /\ web = NoWeb

\* _parse_progress_percent(name)
ParseName ==
  /\ out.fn # "_parse_progress_percent"
  /\ out' = [fn |-> "_parse_progress_percent", unsigned |-> Ok(tok.arg),
             result |-> Ok(_parse_progress_percent(tok.arg))]
  /\ UNCHANGED <<now, tok, web>>
  /\ UNCHANGED syncVars

\* _project_payload_to_kwargs of a record whose project has the name.
MapNamedProject ==
  /\ out.fn # "_project_payload_to_kwargs"
  /\ out' = [fn |-> "_project_payload_to_kwargs", unsigned |-> Ok(tok.arg),
             result |-> _project_payload_to_kwargs(
                          ProjectRecord(I(10), I(1), tok.arg, StInProgress, None, None, None), 1)]
  /\ UNCHANGED <<now, tok, web>>
  /\ UNCHANGED syncVars

NextNames ==
  \/ ParseName
  \/ MapNamedProject

SpecNames == InitNames /\ [][NextNames]_vars

----------------------------------------------------------------------------
(* main.py: the classification of the stored projects.                     *)

FINISHED_STATUSES ==
  {<<"f", "i", "n", "i", "s", "h", "e", "d">>,
   <<"p", "a", "s", "s", "e", "d">>,
   <<"v", "a", "l", "i", "d", "a", "t", "e", "d">>,
   <<"d", "o", "n", "e">>,
   <<"c", "o", "m", "p", "l", "e", "t", "e", "d">>}

IN_PROGRESS_STATUSES ==
  {<<"i", "n", "_", "p", "r", "o", "g", "r", "e", "s", "s">>,
   <<"w", "a", "i", "t", "i", "n", "g", "_", "f", "o", "r", "_",
     "c", "o", "r", "r", "e", "c", "t", "i", "o", "n">>,
   <<"s", "e", "a", "r", "c", "h", "i", "n", "g", "_", "a", "_", "g", "r", "o", "u", "p">>,
   <<"c", "r", "e", "a", "t", "i", "n", "g", "_", "g", "r", "o", "u", "p">>,
   <<"p", "a", "r", "e", "n", "t">>}

\* is_finished_project
is_finished_project(project) ==
  IF Truthy(project.validated) THEN TRUE
  ELSE IF Truthy(project.status) /\ Lower(project.status.v) \in FINISHED_STATUSES THEN TRUE
  ELSE IF project.final_mark # None
          /\ Lower(PyOr(project.status, S(<<>>)).v) \notin IN_PROGRESS_STATUSES
  THEN TRUE
  ELSE FALSE

\* is_in_progress_project deciding by the status alone.
is_in_progress_project_by_status(project) ==
  Lower(PyOr(project.status, S(<<>>)).v) \in IN_PROGRESS_STATUSES

\* is_in_progress_project
is_in_progress_project(project) ==
  IF Lower(PyOr(project.status, S(<<>>)).v) \in IN_PROGRESS_STATUSES THEN TRUE
  ELSE IF ~is_finished_project(project) /\ project.final_mark = None THEN TRUE
  ELSE FALSE

\* The stored projects tried: every validated flag, final mark absent, zero
\* and positive, and for status none, the empty string, each status of the
\* two sets, one in capitals and one of neither set.
StatusesTried ==
  {None, S(<<>>), S(<<"F", "i", "n", "i", "s", "h", "e", "d">>), S(<<"f", "a", "i", "l">>)}
    \cup {S(st) : st \in FINISHED_STATUSES \cup IN_PROGRESS_STATUSES}

ProjectsTried ==
  {[validated |-> validated, status |-> st, final_mark |-> final_mark] :
     validated \in {None, B(FALSE), B(TRUE)},
     st \in StatusesTried,
     final_mark \in {None, I(0), I(80)}}

InitClassify ==
  /\ db = EmptyStore
  /\ tx = EmptyStore
  /\ pc = "idle"
  /\ req = NoReq
  /\ resp = NoResp
  /\ calls = <<>>
  /\ last = NoLast
  /\ now = 0
  /\ \E project \in ProjectsTried : tok = [NoTok EXCEPT !.arg = project]
  /\ out = NoOut
  /\ web = NoWeb

\* is_finished_project and is_in_progress_project of the project at hand.
Classify ==
  /\ out.fn = "none"
  /\ out' = [fn |-> "classify", unsigned |-> Ok(tok.arg),
             result |-> Ok([finished |-> is_finished_project(tok.arg),
                            in_progress |-> is_in_progress_project(tok.arg)])]
  /\ UNCHANGED <<now, tok, web>>
  /\ UNCHANGED syncVars

SpecClassify == InitClassify /\ [][Classify]_vars

----------------------------------------------------------------------------
(* main.py: logout and the session read, beside login and callback.        *)

\* get_optional_session at `time`: None without a cookie, else decode_session.
get_optional_session(raw, time) ==
  IF ~Truthy(raw) THEN Ok(None) ELSE decode_session(raw.raw, Settings, time)

\* session_to_payload
session_to_payload(session) ==
  [user |-> [id |-> session.user.id, login |-> session.user.login,
             displayName |-> session.user.display_name,
             imageUrl |-> session.user.image_url],
   expiresAt |-> session.expires_at]

\* A session without refresh token, as a token endpoint that grants none
\* leaves it.
SessionWithoutRefresh == SessionOf(I(1), S("alice"), S("Alice A"), None, S("at"), None, None)

\* The session cookies a request can carry: none, an empty one, the one of the
\* browser's jar, what can be made of it without the secret, and session
\* tickets of other content signed with the secret.
SessionCookies(jar, time) ==
  {None, S(""), jar.session, jar.state, CookieOf(NoToken),
   CookieOf(encode_session(SessionWithoutRefresh, Settings, time))}
    \cup (IF jar.session = None THEN {}
          ELSE {CookieOf(f) : f \in Forgeries(jar.session.raw, time)})
    \cup {CookieOf(dumps(_session_serializer(Settings), payload, time)) :
            payload \in ShapedPayloads}

\* A response of logout that deletes the state cookie only.
LoggedOutKeepingSession(rq) ==
  /\ web' = [web EXCEPT !.jar = [state |-> None, session |-> web.jar.session],
                        !.rq = [rq EXCEPT !.status = 303, !.cleared = TRUE]]
  /\ pc' = "responded"

\* The response of logout: both cookies are deleted.
LoggedOut(rq) ==
  /\ web' = [web EXCEPT !.jar = [state |-> None, session |-> None],
                        !.rq = [rq EXCEPT !.status = 303, !.cleared = TRUE]]
  /\ pc' = "responded"

\* logout up to its await: the session dependency, then the revocation when
\* the session has a refresh token, else the response. An exception of the
\* dependency is the response.
LogoutWith(cookie, session) ==
  IF ~session.ok
  THEN /\ web' = [web EXCEPT !.rq = [NoRequest EXCEPT !.op = "logout", !.cookie = cookie,
                                                     !.session = session, !.status = 500]]
       /\ pc' = "responded"
  ELSE IF session.v # None /\ Truthy(session.v.refresh_token)
  THEN /\ web' = [web EXCEPT !.rq = [NoRequest EXCEPT !.op = "logout", !.cookie = cookie,
                                                     !.session = session]]
       /\ pc' = "revoke"
  ELSE LoggedOut([NoRequest EXCEPT !.op = "logout", !.cookie = cookie, !.session = session])

Logout ==
  /\ pc = "idle"
  /\ \E cookie \in SessionCookies(web.jar, now) :
       LogoutWith(cookie, get_optional_session(cookie, now))
  /\ UNCHANGED <<db, tx, req, resp, calls, last, now, tok, out>>

\* What the revocation call can come to: an answer of some status, or an
\* exception (status 0).
RevokeOutcomes == {200, 401, 503, 0}

\* `await client.post(...)` inside `try ... except Exception: pass`, then the
\* response.
Revoke ==
  /\ pc = "revoke"
  /\ \E outcome \in RevokeOutcomes :
       calls' = Append(calls, [url |-> "oauth/revoke", page |-> 0, status_code |-> outcome])
  /\ LoggedOut(web.rq)
  /\ UNCHANGED <<db, tx, req, resp, last, now, tok, out>>

\* session_endpoint: 401 without a session, else its payload.
SessionRead(cookie, session) ==
  /\ web' = [web EXCEPT !.rq =
               [NoRequest EXCEPT
                  !.op = "session", !.cookie = cookie, !.session = session,
                  !.status = IF ~session.ok THEN 500
                             ELSE IF session.v = None THEN 401 ELSE 200,
                  !.body = IF session.ok /\ session.v # None
                           THEN session_to_payload(session.v) ELSE None]]
  /\ pc' = "responded"

ReadSession ==
  /\ pc = "idle"
  /\ \E cookie \in SessionCookies(web.jar, now) :
       SessionRead(cookie, get_optional_session(cookie, now))
  /\ UNCHANGED <<db, tx, req, resp, calls, last, now, tok, out>>

NextFlow ==
  \/ NextCallback
  \/ Logout
  \/ Revoke
  \/ ReadSession

SpecFlow == Init /\ [][NextFlow]_vars

\* get_required_session, then current_student up to the student it looks for:
\* 401 without a session, 404 "Student profile not synced" when no student has
\* the session's id as forty_two_id, else the student.
StudentRead(cookie, session) ==
  /\ web' = [web EXCEPT !.rq =
               [NoRequest EXCEPT
                  !.op = "students/me", !.cookie = cookie, !.session = session,
                  !.status = IF ~session.ok THEN 500
                             ELSE IF session.v = None THEN 401
                             ELSE IF StudentIdsOf(db, session.v.user.id) = {} THEN 404
                             ELSE 200,
                  !.body = IF session.ok /\ session.v # None
                              /\ StudentIdsOf(db, session.v.user.id) # {}
                           THEN db.students[CHOOSE i \in StudentIdsOf(db, session.v.user.id) :
                                             TRUE].login
                           ELSE None]]
  /\ pc' = "responded"

CurrentStudent ==
  /\ pc = "idle"
  /\ \E cookie \in SessionCookies(web.jar, now) :
       StudentRead(cookie, get_optional_session(cookie, now))
  /\ UNCHANGED <<db, tx, req, resp, calls, last, now, tok, out>>

NextStudent ==
  \/ NextFlow
  \/ CurrentStudent

SpecStudent == Init /\ [][NextStudent]_vars

----------------------------------------------------------------------------
(* The properties of the sync cycle.                                       *)

\* The step that commits a cycle, and the state it leads to.
CommitStep == pc = "synced_cursus" /\ pc' = "done" /\ resp'.committed
Committed == pc = "done" /\ resp.committed

\* The project-user ids and the cursus ids stored for a student.
StoredProjectIds(store, sid) ==
  {r.forty_two_project_user_id.v : r \in ProjectsOf(store, sid)}
StoredCursusIds(store, sid) == CursusKeys(store, sid)

\* The ids of the fetched project records that are not piscine records and
\* have an id.
FetchedProjectIds(payloads) ==
  {ProjectKey(payloads[k]).v.v :
     k \in {i \in 1..Len(payloads) :
              _should_store_project(payloads[i]) /\ payloads[i].id # None}}

\* The cursus ids the fetched curriculum records are stored under.
FetchedCursusIds(payloads) ==
  {_cursus_payload_to_kwargs(payloads[k], 0).v.forty_two_cursus_id.v :
     k \in {i \in 1..Len(payloads) :
              _cursus_payload_to_kwargs(payloads[i], 0).v.forty_two_cursus_id # None}}

\* C1: after a sync cycle that commits, the project-user ids stored for the
\* owner are exactly the ids of the fetched project records that are not
\* piscine records and have an id: none is missing and nothing else is stored.
C1_StoredIdsAreTheFetchedIds ==
  Committed =>
    StoredProjectIds(db, req.sid) = FetchedProjectIds(req.projects_payload)

\* A committed cycle whose fetch held a piscine record and a record to store,
\* and that removed an id stored before.
C1_Witness ==
  /\ Committed
  /\ \E k \in 1..Len(req.projects_payload) :
       ~_should_store_project(req.projects_payload[k])
  /\ StoredProjectIds(db, req.sid) # {}
  /\ StoredProjectIds(req.before, req.sid) \ StoredProjectIds(db, req.sid) # {}

\* C2: for projects and for curriculum, at every committing cycle: no key that
\* is absent from the fetch is stored for the owner afterwards (a stored record
\* whose key is absent is deleted, and an absent key does not come back before
\* it is fetched again), and every key that was stored and is in the fetch is
\* still stored afterwards.
C2_AbsenceIsTheSoleDeletionTrigger ==
  [][CommitStep =>
       /\ StoredProjectIds(db', req.sid) \subseteq FetchedProjectIds(req.projects_payload)
       /\ StoredProjectIds(db, req.sid) \cap FetchedProjectIds(req.projects_payload)
            \subseteq StoredProjectIds(db', req.sid)
       /\ StoredCursusIds(db', req.sid) \subseteq FetchedCursusIds(req.cursus_payload)
       /\ StoredCursusIds(db, req.sid) \cap FetchedCursusIds(req.cursus_payload)
            \subseteq StoredCursusIds(db', req.sid)]_vars

\* C3: a cycle that commits with the profile and the two collections of the
\* cycle committed before it leaves the stored projects and enrollments as
\* they were, and inserts and deletes nothing.
C3_SecondCycleChangesNothing ==
  [][(/\ CommitStep
      /\ last.valid
      /\ req.profile = last.profile
      /\ req.projects_payload = last.projects_payload
      /\ req.cursus_payload = last.cursus_payload)
     => /\ db'.projects = db.projects
        /\ db'.cursus = db.cursus
        /\ resp'.project_inserts = 0 /\ resp'.project_deletes = 0
        /\ resp'.cursus_inserts = 0 /\ resp'.cursus_deletes = 0]_vars

\* C4: the committed store changes only at the commit of a cycle: while a
\* cycle runs, and when it has ended without its commit, the committed store
\* is the one the cycle began with; when it has committed, the committed store
\* holds all the writes of the cycle's session.
C4_CycleIsAtomic ==
  /\ (pc # "idle" /\ ~resp.committed) => db = req.before
  /\ Committed => db = tx

\* A cycle that was stopped after its session had inserted projects.
C4_Witness ==
  /\ pc = "done"
  /\ ~resp.committed
  /\ resp.project_inserts > 0
  /\ db = req.before

\* Some request of the cycle was answered with a status that is not 200.
FailedCall ==
  \E k \in 1..Len(calls) :
    calls[k].url \in {"projects_users", "cursus_users"} /\ calls[k].status_code # 200

\* C5: when a page request of either fetch is answered with a non-success
\* status the cycle ends there with 502: the collection is not returned, not
\* even the pages read before, nothing is reconciled, and the committed store
\* is the one the cycle began with.
C5_FetchFailureEndsTheCycle ==
  FailedCall =>
    /\ pc = "done"
    /\ resp.status = 502
    /\ ~resp.committed
    /\ calls[Len(calls)].status_code # 200
    /\ calls[Len(calls)].url = "projects_users" => req.projects_payload = <<>>
    /\ req.cursus_payload = <<>>
    /\ resp.project_inserts = 0 /\ resp.project_deletes = 0
    /\ resp.cursus_inserts = 0 /\ resp.cursus_deletes = 0
    /\ db = req.before

\* The second page of the projects fetch of an owner's first sync failed.
C5_Witness ==
  /\ pc = "done"
  /\ resp.status = 502
  /\ Len(calls) = 2
  /\ calls[2].status_code # 200
  /\ req.before.students = <<>>
  /\ db.students = <<>>

----------------------------------------------------------------------------
(* The properties of the tickets.                                          *)

\* The age of the ticket at hand, and whether its signature is the one the
\* session or the state serializer makes for what it carries.
Age == now - tok.at
SignedBy(serializer) ==
  /\ tok.raw.shape = "signed"
  /\ tok.raw.sig = Signature(serializer.secret_key, serializer.salt,
                             tok.raw.payload, tok.raw.ts)

\* C7: a ticket made by encode_session decodes, by decode_session within the
\* session max-age, to the session data it was made of; a ticket made by
\* encode_state decodes, by decode_state within 600 seconds, to its state.
C7_RoundTrip ==
  /\ (out.fn = "decode_session" /\ tok.by = "encode_session"
        /\ Age <= Settings.session_max_age)
       => out.result = Ok(tok.arg)
  /\ (out.fn = "decode_state" /\ tok.by = "encode_state" /\ Age <= STATE_TTL_SECONDS)
       => out.result = Ok(tok.arg)

\* A session ticket decoded at the very end of its max-age, to its session data.
C7_Witness ==
  /\ out.fn = "decode_session"
  /\ tok.by = "encode_session"
  /\ Age = Settings.session_max_age
  /\ tok.arg.user.id = I(7)
  /\ out.result = Ok(tok.arg)

\* C8: a correctly signed session ticket older than the session max-age
\* decodes to None, and a correctly signed state ticket older than 600 seconds
\* decodes to None, also while it is younger than the session max-age.
C8_Expiry ==
  /\ (out.fn = "decode_session" /\ tok.by = "encode_session"
        /\ Age > Settings.session_max_age)
       => out.result = Ok(None)
  /\ (out.fn = "decode_state" /\ tok.by = "encode_state" /\ Age > STATE_TTL_SECONDS)
       => out.result = Ok(None)

\* A state ticket older than 600 seconds and younger than the session max-age,
\* correctly signed, decoded to None.
C8_Witness ==
  /\ out.fn = "decode_state"
  /\ tok.by = "encode_state"
  /\ SignedBy(_state_serializer(Settings))
  /\ Age > STATE_TTL_SECONDS
  /\ Age < Settings.session_max_age
  /\ out.result = Ok(None)

\* C9: a ticket made by encode_session is refused by the state serializer and
\* decodes to None by decode_state, and a ticket made by encode_state is
\* refused by the session serializer and decodes to None by decode_session,
\* whatever its age.
C9_PurposeSeparation ==
  /\ (out.fn = "decode_state" /\ tok.by = "encode_session")
       => ~out.unsigned.ok /\ out.result = Ok(None)
  /\ (out.fn = "decode_session" /\ tok.by = "encode_state")
       => ~out.unsigned.ok /\ out.result = Ok(None)

\* A fresh session ticket given to decode_state.
C9_Witness ==
  /\ out.fn = "decode_state"
  /\ tok.by = "encode_session"
  /\ Age = 0
  /\ out.result = Ok(None)

\* C10: decode_session and decode_state never raise; they give None for a
\* ticket that was altered or signed with another key, for an expired one, and
\* decode_session gives None for a correctly signed payload whose user id is
\* missing or not coercible to an integer or whose login is missing.
C10_DecodingFailsClosed ==
  out.fn # "none" =>
    /\ out.result.ok
    /\ tok.by = "forged" => out.result = Ok(None)
    /\ ~out.unsigned.ok => out.result = Ok(None)
    /\ (out.fn = "decode_session" /\ tok.by = "signed"
          /\ ~IntCoerce(Get(UserOf(tok.raw.payload), "id")).ok)
         => out.result = Ok(None)
    /\ (out.fn = "decode_session" /\ tok.by = "signed"
          /\ ~Has(UserOf(tok.raw.payload), "login"))
         => out.result = Ok(None)

----------------------------------------------------------------------------
(* The properties of callback.                                             *)

\* The request being served has a code and a state, and its state cookie is a
\* token the state serializer has signed, not older than 600 seconds, whose
\* state is the state of the request.
ChecksPass ==
  /\ web.cb.code.t = "str" /\ web.cb.code.v # ""
  /\ web.cb.state.t = "str" /\ web.cb.state.v # ""
  /\ web.cb.cookie.t = "token"
  /\ web.cb.cookie.raw.shape = "signed"
  /\ web.cb.cookie.raw.sig =
       Signature(Settings.session_secret, STATE_SALT,
                 web.cb.cookie.raw.payload, web.cb.cookie.raw.ts)
  /\ now - web.cb.cookie.raw.ts \in 0..STATE_TTL_SECONDS
  /\ Get(web.cb.cookie.raw.payload, "state") = web.cb.state

\* C6: a callback request that lacks a non-empty code or state, or a state
\* cookie that is a correctly signed, unexpired state ticket of the request's
\* state, ends with 400 and has sent nothing upstream, written nothing to the
\* store and set no session cookie; so whatever callback does of these, it
\* does for a request that has them all.
C6_CallbackChecksComeFirst ==
  (pc # "idle" /\ ~ChecksPass) =>
    /\ pc = "responded"
    /\ web.cb.status = 400
    /\ calls = <<>>
    /\ db = web.cb.before
    /\ tx = db
    /\ web.cb.set_session = None

\* A request refused for a state ticket that is correctly signed and carries
\* the request's state, but is older than 600 seconds.
C6_Witness ==
  /\ pc = "responded"
  /\ web.cb.status = 400
  /\ web.cb.detail = "OAuth state mismatch"
  /\ Truthy(web.cb.code)
  /\ web.cb.cookie.t = "token"
  /\ web.cb.cookie.raw.shape = "signed"
  /\ web.cb.cookie.raw.sig =
       Signature(Settings.session_secret, STATE_SALT,
                 web.cb.cookie.raw.payload, web.cb.cookie.raw.ts)
  /\ Get(web.cb.cookie.raw.payload, "state") = web.cb.state
  /\ now - web.cb.cookie.raw.ts > STATE_TTL_SECONDS
  /\ calls = <<>>

\* The place of an upstream request in the course of callback.
Rank(url) ==
  CASE url = "oauth/token" -> 1
    [] url = "v2/me" -> 2
    [] url = "projects_users" -> 3
    [] url = "cursus_users" -> 4
    [] OTHER -> 5

\* The upstream requests sent so far, to `url`, that were answered with 200.
Answered(url) == {k \in 1..Len(calls) : calls[k].url = url /\ calls[k].status_code = 200}

\* C11: while callback serves a request the upstream requests go out in the
\* order code exchange, profile fetch, projects pages, curriculum pages; the
\* reconciliation runs only after both fetches have been answered, the commit
\* after it, and a session cookie is set only by the response of a callback
\* whose cycle has committed, for an owner the committed store holds, and that
\* response clears the state cookie.
C11_CallbackOrder ==
  /\ \A i, j \in 1..Len(calls) : i < j => Rank(calls[i].url) <= Rank(calls[j].url)
  /\ Cardinality({k \in 1..Len(calls) : Rank(calls[k].url) <= 2}) <= 2
  /\ (pc \in {"synced_projects", "synced_cursus"} \/ resp.committed) =>
       /\ Answered("oauth/token") # {} /\ Answered("v2/me") # {}
       /\ Answered("projects_users") # {} /\ Answered("cursus_users") # {}
       /\ \A k \in 1..Len(calls) : calls[k].status_code = 200
  /\ web.cb.set_session # None =>
       /\ pc = "responded" /\ web.cb.status = 302
       /\ resp.committed /\ db = tx
       /\ web.jar.session = web.cb.set_session
       /\ web.jar.state = None
  /\ web.jar.session # None =>
       StudentIdsOf(db, web.jar.session.raw.payload.user.id) # {}

\* A callback that has set the session cookie after a cycle that stored a
\* project and an enrollment.
C11_Witness ==
  /\ pc = "responded"
  /\ web.cb.set_session # None
  /\ web.cb.cookie # None
  /\ Len(calls) = 4
  /\ db.projects # {}
  /\ db.cursus # EmptyBag

\* C12: a logout request that has been answered was answered with the 303
\* that deletes the session cookie, whatever session cookie it carried and
\* whatever the revocation call came to.
C12_LogoutAlwaysSucceeds ==
  (web.rq.op = "logout" /\ pc = "responded") =>
    /\ web.rq.status = 303
    /\ web.rq.cleared
    /\ web.jar.session = None

\* The step is the response of a callback that succeeded: it follows the
\* commit, and the state cookie the request carried was a state ticket signed
\* with the secret, carrying the request's state.
CallbackSucceeds ==
  /\ pc = "done" /\ pc' = "responded"
  /\ resp.committed
  /\ web'.cb.status = 302
  /\ ChecksPass

\* The step is a login: the state cookie becomes the state ticket it issues.
LoginIssues ==
  /\ pc = "idle" /\ pc' = "idle"
  /\ \E state \in States :
       web'.jar.state = CookieOf(encode_state(state, Settings, now))

\* The step is the response of a logout.
LogoutResponds == pc \in {"idle", "revoke"} /\ pc' = "responded" /\ web'.rq.op = "logout"

\* The step answers a session read that carried the browser's session cookie.
ReadsOwnSession ==
  /\ pc = "idle" /\ pc' = "responded"
  /\ web'.rq.op = "session"
  /\ web'.rq.cookie = web.jar.session

\* C13: for a client whose cookies are the ones the responses set and clear:
\* the session cookie is set only by the response of a callback that
\* succeeded, with the ticket that callback issued, and is removed only by the
\* response of a logout, which always removes it; the state cookie is set only
\* by a login, to the ticket that login issues, and a callback succeeds only
\* with such a ticket; a session read reports the session of the cookie only
\* when the cookie is there and decodes, and 401 when it is absent or does
\* not decode. Hence a read reports a session only after a callback that
\* succeeded since the last logout, itself preceded by the login of its state
\* ticket.
C13_LoginFlow ==
  [][/\ (web'.jar.session # web.jar.session /\ web'.jar.session # None) =>
          CallbackSucceeds /\ web'.jar.session = web'.cb.set_session
     /\ (web'.jar.session # web.jar.session /\ web'.jar.session = None) => LogoutResponds
     /\ (LogoutResponds /\ web'.rq.cookie = web.jar.session)
          => web'.jar.session = None /\ web'.rq.status = 303
     /\ (web'.jar.state # web.jar.state /\ web'.jar.state # None) => LoginIssues
     /\ (pc = "done" /\ pc' = "responded" /\ web'.cb.status = 302) => CallbackSucceeds
     /\ ReadsOwnSession =>
          /\ web'.rq.status \in {200, 401}
          /\ web'.rq.status = 200 =>
               /\ web.jar.session # None
               /\ decode_session(web.jar.session.raw, Settings, now).v # None
               /\ web'.rq.body =
                    session_to_payload(decode_session(web.jar.session.raw, Settings, now).v)
          /\ (web.jar.session = None
                \/ decode_session(web.jar.session.raw, Settings, now) = Ok(None))
               => web'.rq.status = 401]_vars

\* A session read that reported the session of the cookie a callback had set,
\* later than the callback.
C13_Witness ==
  /\ pc = "responded"
  /\ web.rq.op = "session"
  /\ web.rq.status = 200
  /\ web.rq.cookie = web.jar.session
  /\ web.jar.state = None
  /\ web.rq.body.user.login = S("alice")
  /\ now > web.jar.session.raw.ts

\* The record is a placeholder: the lowercased name of its project, or the
\* slug when it has no name, contains "piscine".
IsPlaceholder(item) ==
  LET project == IF item.project = None THEN NoProject ELSE item.project
      shown == IF Truthy(project.name) THEN project.name
               ELSE IF Truthy(project.slug) THEN project.slug ELSE S(<<>>)
  IN \E i \in 0..(Len(shown.v) - 7) :
       Lower(SubSeq(shown.v, i + 1, i + 7)) = <<"p", "i", "s", "c", "i", "n", "e">>

\* The session has run _sync_projects on the fetched projects collection.
ProjectsReconciled ==
  pc \in {"synced_projects", "synced_cursus"} \/ Committed

\* C14: once a cycle has reconciled the projects, every project row its
\* session holds for the owner is the mapping of a fetched record that is no
\* placeholder (no row was inserted or updated from a placeholder record),
\* and an id the owner had stored that the fetch holds in placeholder records
\* only is not stored any more.
C14_PlaceholdersAreNotStored ==
  ProjectsReconciled =>
    /\ \A r \in ProjectsOf(tx, req.sid) :
         \E k \in 1..Len(req.projects_payload) :
           /\ ~IsPlaceholder(req.projects_payload[k])
           /\ _project_payload_to_kwargs(req.projects_payload[k], req.sid) = Ok(r)
    /\ \A k \in 1..Len(req.projects_payload) :
         (/\ IsPlaceholder(req.projects_payload[k])
          /\ \A l \in 1..Len(req.projects_payload) :
               req.projects_payload[l].id = req.projects_payload[k].id
                 => IsPlaceholder(req.projects_payload[l]))
         => req.projects_payload[k].id.v \notin StoredProjectIds(tx, req.sid)

\* A committed cycle whose fetch held one record, a placeholder of an id the
\* owner had stored: the owner has no project left.
C14_Witness ==
  /\ Committed
  /\ Len(req.projects_payload) = 1
  /\ IsPlaceholder(req.projects_payload[1])
  /\ req.projects_payload[1].id.v \in StoredProjectIds(req.before, req.sid)
  /\ ProjectsOf(db, req.sid) = {}

\* The last record of the fetched projects that is stored under the key of
\* record k, and the last record of the fetched curriculum that is looked up
\* under the key of record k.
LastProjectOf(payloads, k) ==
  CHOOSE l \in k..Len(payloads) :
    /\ ~IsPlaceholder(payloads[l]) /\ payloads[l].id = payloads[k].id
    /\ \A m \in (l + 1)..Len(payloads) :
         IsPlaceholder(payloads[m]) \/ payloads[m].id # payloads[k].id
LastCursusOf(payloads, k) ==
  CHOOSE l \in k..Len(payloads) :
    /\ CursusKey(payloads[l]) = CursusKey(payloads[k])
    /\ \A m \in (l + 1)..Len(payloads) : CursusKey(payloads[m]) # CursusKey(payloads[k])

\* The owner's enrollments that are stored under `key` or equal `row`.
EnrollmentsFor(store, sid, key, row) ==
  [r \in {x \in DOMAIN store.cursus :
            /\ x.student_id = sid
            /\ x = row \/ x.forty_two_cursus_id = I(key)} |-> store.cursus[r]]

\* C15: after a cycle that commits, for every fetched record whose key the
\* owner had stored before the cycle, the owner has exactly one record for it,
\* and it is the mapping of the (last) fetched record of that key, field by
\* field, with nothing of the old record left; for projects and for
\* curriculum.
C15_FullReplaceOnUpdate ==
  Committed =>
    /\ \A k \in 1..Len(req.projects_payload) :
         (/\ ~IsPlaceholder(req.projects_payload[k])
          /\ req.projects_payload[k].id.t = "int"
          /\ req.projects_payload[k].id.v \in StoredProjectIds(req.before, req.sid))
         => {r \in ProjectsOf(db, req.sid) :
               r.forty_two_project_user_id = req.projects_payload[k].id}
              = {_project_payload_to_kwargs(
                   req.projects_payload[LastProjectOf(req.projects_payload, k)], req.sid).v}
    /\ \A k \in 1..Len(req.cursus_payload) :
         (/\ CursusKey(req.cursus_payload[k]).ok
          /\ CursusKey(req.cursus_payload[k]).v # None
          /\ CursusKey(req.cursus_payload[k]).v.v \in StoredCursusIds(req.before, req.sid))
         => EnrollmentsFor(db, req.sid, CursusKey(req.cursus_payload[k]).v.v,
                           _cursus_payload_to_kwargs(
                             req.cursus_payload[LastCursusOf(req.cursus_payload, k)],
                             req.sid).v)
              = SetToBag({_cursus_payload_to_kwargs(
                            req.cursus_payload[LastCursusOf(req.cursus_payload, k)],
                            req.sid).v})

----------------------------------------------------------------------------
(* The properties of the mappers.                                          *)

\* The length of the run of digits a string ends with (0 when it does not end
\* with a digit), and the string without its trailing blanks.
RECURSIVE DigitRun(_)
DigitRun(s) ==
  IF Len(s) = 0 \/ s[Len(s)] \notin {"0", "1", "2", "3", "4", "5", "6", "7", "8", "9"} THEN 0
  ELSE 1 + DigitRun(SubSeq(s, 1, Len(s) - 1))
RECURSIVE WithoutTrailingBlanks(_)
WithoutTrailingBlanks(s) ==
  IF Len(s) = 0 \/ s[Len(s)] \notin {" ", "\t", "\n", "\r"} THEN s
  ELSE WithoutTrailingBlanks(SubSeq(s, 1, Len(s) - 1))

\* What parseProgressPercent is to give for a string that ends with a run of
\* `run` digits: the value of the run, 100 at most, and the string without the
\* run and the blanks before it.
ExpectedPercent(s, run) ==
  [t |-> "parsed",
   percent |-> IF DigitsValue(SubSeq(s, Len(s) - run + 1, Len(s))) < 100
               THEN DigitsValue(SubSeq(s, Len(s) - run + 1, Len(s))) ELSE 100,
   cleaned_name |-> IF Len(WithoutTrailingBlanks(SubSeq(s, 1, Len(s) - run))) = 0 THEN None
                    ELSE S(WithoutTrailingBlanks(SubSeq(s, 1, Len(s) - run)))]

\* C16: for a name that ends with a run of one to three digits,
\* _parse_progress_percent gives the value of the run, 100 at most, and the
\* name without the run and the blanks before it (None when nothing is left),
\* and the mapper stores that name and that percent; for a name that does not
\* end with a digit (no name included) it gives None, and the mapper stores
\* the name as it is and no percent.
C16_ParseProgressPercent ==
  /\ (out.fn = "_parse_progress_percent" /\ tok.arg # None
        /\ DigitRun(tok.arg.v) \in 1..3)
       => /\ out.result.v = ExpectedPercent(tok.arg.v, DigitRun(tok.arg.v))
          /\ out.result.v.percent \in 0..100
  /\ (out.fn = "_parse_progress_percent"
        /\ (tok.arg = None \/ DigitRun(tok.arg.v) = 0))
       => out.result.v = None
  /\ (out.fn = "_project_payload_to_kwargs" /\ tok.arg # None
        /\ DigitRun(tok.arg.v) \in 1..3)
       => /\ out.result.v.name = ExpectedPercent(tok.arg.v, DigitRun(tok.arg.v)).cleaned_name
          /\ out.result.v.progress_percent
               = I(ExpectedPercent(tok.arg.v, DigitRun(tok.arg.v)).percent)
  /\ (out.fn = "_project_payload_to_kwargs"
        /\ (tok.arg = None \/ DigitRun(tok.arg.v) = 0))
       => /\ out.result.v.name = tok.arg
          /\ out.result.v.progress_percent = None

\* The name at hand without its trailing blanks.
Trimmed == WithoutTrailingBlanks(tok.arg.v)

\* C16 as amended: the blanks a name ends with are set aside first. For a
\* name that, without its trailing blanks, ends with a run of one to three
\* digits, _parse_progress_percent gives the value of the run, 100 at most,
\* and the name without the run and the blanks around it (None when nothing is
\* left), and the mapper stores that name and that percent; for a name that,
\* without its trailing blanks, does not end with a digit (no name included)
\* it gives None, and the mapper stores the name as it is and no percent.
C16_ParseProgressPercentAmended ==
  /\ (out.fn = "_parse_progress_percent" /\ tok.arg # None /\ DigitRun(Trimmed) \in 1..3)
       => /\ out.result.v = ExpectedPercent(Trimmed, DigitRun(Trimmed))
          /\ out.result.v.percent \in 0..100
  /\ (out.fn = "_parse_progress_percent" /\ (tok.arg = None \/ DigitRun(Trimmed) = 0))
       => out.result.v = None
  /\ (out.fn = "_project_payload_to_kwargs" /\ tok.arg # None /\ DigitRun(Trimmed) \in 1..3)
       => /\ out.result.v.name = ExpectedPercent(Trimmed, DigitRun(Trimmed)).cleaned_name
          /\ out.result.v.progress_percent
               = I(ExpectedPercent(Trimmed, DigitRun(Trimmed)).percent)
  /\ (out.fn = "_project_payload_to_kwargs" /\ (tok.arg = None \/ DigitRun(Trimmed) = 0))
       => /\ out.result.v.name = tok.arg
          /\ out.result.v.progress_percent = None

\* A name of three digits above 100 followed by a blank: percent 100, no name.
C16_Witness ==
  /\ out.fn = "_parse_progress_percent"
  /\ tok.arg # None
  /\ Len(tok.arg.v) = 4
  /\ tok.arg.v[4] = " "
  /\ DigitRun(Trimmed) = 3
  /\ DigitsValue(Trimmed) > 100
  /\ out.result.v.percent = 100
  /\ out.result.v.cleaned_name = None

\* C17: some project, the one at hand or another of the validated flags,
\* statuses and final marks tried, is neither finished nor in progress.
C17_SomeProjectIsNeither ==
  \E project \in ProjectsTried \cup {tok.arg} :
    ~is_finished_project(project) /\ ~is_in_progress_project(project)

\* C17 as amended: every project is finished or in progress (and it can be
\* both): no combination of validated flag, status and final mark makes both
\* functions return false.
C17_EveryProjectIsClassified ==
  out.fn = "classify" => out.result.v.finished \/ out.result.v.in_progress

\* A project with a final mark whose status is in neither set and that is not
\* validated: not in progress by status, finished by its mark.
C17_Witness ==
  /\ out.fn = "classify"
  /\ ~Truthy(tok.arg.validated)
  /\ tok.arg.status = S(<<"f", "a", "i", "l">>)
  /\ tok.arg.final_mark = I(0)
  /\ out.result.v.finished
  /\ ~out.result.v.in_progress

----------------------------------------------------------------------------
(* The properties of the store with two owners.                            *)

\* The curriculum rows of a student, with their counts.
EnrollmentsOf(store, sid) ==
  [r \in {x \in DOMAIN store.cursus : x.student_id = sid} |-> store.cursus[r]]

\* The store has one project row at most for a key, and the row's student is
\* a row of the students table.
ProjectKeysUnique(store) ==
  /\ \A r1, r2 \in store.projects :
       r1.forty_two_project_user_id = r2.forty_two_project_user_id => r1 = r2
  /\ \A r \in store.projects : r.student_id \in 1..Len(store.students)

\* C19: no two stored project records share a remote project-user id, and
\* each belongs to one owner, in the committed store and in what a cycle has
\* written so far, also when two owners are served the same id.
C19_ProjectIdsAreUnique == ProjectKeysUnique(db) /\ ProjectKeysUnique(tx)

\* A cycle of the second owner was served the id 10 the first owner holds, and
\* has ended: the row of the first owner is the only one of that id.
C19_Witness ==
  /\ pc = "done"
  /\ req.sid = 2
  /\ Len(req.projects_payload) = 1
  /\ req.projects_payload[1].id = I(10)
  /\ \E r \in db.projects : r.student_id = 1 /\ r.forty_two_project_user_id = I(10)
  /\ resp.status = 500
  /\ resp.detail = "IntegrityError"

\* The rows of every student but the cycle's own are in `after` what they are
\* in `before`.
OthersUntouched(before, after, sid) ==
  \A other \in (1..Len(before.students)) \ {sid} :
    /\ ProjectsOf(after, other) = ProjectsOf(before, other)
    /\ EnrollmentsOf(after, other) = EnrollmentsOf(before, other)

\* C20: a cycle of one owner leaves the project records and the enrollments
\* of every other owner as they were when it began, in each of its writes and
\* in its commit, also when both owners have an enrollment of one curriculum.
C20_OtherOwnersAreUntouched ==
  pc # "idle" =>
    /\ OthersUntouched(req.before, tx, req.sid)
    /\ OthersUntouched(req.before, db, req.sid)

\* The second owner has a project and an enrollment of curriculum 5; a cycle
\* of the first owner, who had an enrollment of curriculum 5 too, was served
\* no curriculum, deleted its own enrollment and has committed.
C20_Witness ==
  /\ pc = "done"
  /\ resp.committed
  /\ req.sid = 1
  /\ resp.cursus_deletes = 1
  /\ CursusKeys(req.before, 1) = {5}
  /\ CursusKeys(db, 1) = {}
  /\ CursusKeys(db, 2) = {5}
  /\ ProjectsOf(db, 2) # {}

----------------------------------------------------------------------------
(* The properties of two cycles of one owner at the same time.             *)

\* A store without the primary keys of its curriculum rows.
WithoutId(row) == [f \in DOMAIN row \ {"id"} |-> row[f]]
Plain(store) ==
  [store EXCEPT !.cursus = BagOfValues([r \in DOMAIN store.cursus |-> WithoutId(r)],
                                       DOMAIN store.cursus)]

\* The stores cycle a and then cycle b can leave, one after the other, on the
\* store cycle a began with.
OneAfterTheOther(a, b) ==
  UNION {Alone(store, req[b].profile, req[b].projects_payload, req[b].cursus_payload) :
           store \in Alone(Plain(req[a].before), req[a].profile,
                           req[a].projects_payload, req[a].cursus_payload)}

\* C18: two cycles of one owner that have both committed leave the store one
\* of them after the other would have left, in one of the two orders: neither
\* worked from a stale set of existing rows, no update is lost and no
\* curriculum key is stored twice.
C18_CyclesAreSerialized ==
  (\A c \in Cycles : pc[c] = "done" /\ resp[c].committed) =>
    \/ Plain(db) \in OneAfterTheOther(1, 2)
    \/ Plain(db) \in OneAfterTheOther(2, 1)

\* The Owner a profile is mapped to.
OwnerOf(profile) == _upsert_student(EmptyStore, profile).store.students[1]

\* One student at most has a forty_two_id.
OneOwnerForAnId(store) ==
  \A i, j \in 1..Len(store.students) :
    store.students[i].forty_two_id = store.students[j].forty_two_id => i = j

\* Cycle c commits in this step.
RaceCommits(c) == pc[c] # "done" /\ pc'[c] = "done" /\ resp'[c].committed

\* One student at most has a forty_two_id, before and after the step; the
\* students table changes in the commit of a cycle only, and after the
\* commit of a cycle the one student of the cycle's forty_two_id is the Owner
\* its profile is mapped to; a cycle that found the student adds none.
OwnerFollowsTheCommit ==
  /\ OneOwnerForAnId(db) /\ OneOwnerForAnId(db')
  /\ db'.students # db.students => \E c \in Cycles : RaceCommits(c)
  /\ \A c \in Cycles :
       RaceCommits(c) =>
         /\ \E i \in 1..Len(db'.students) : db'.students[i] = OwnerOf(req[c].profile)
         /\ req[c].student # None => Len(db'.students) = Len(db.students)

\* C21: the committed store has one Owner at most for a remote id, also when
\* two first cycles of the id run at the same time; an Owner comes to be in
\* the commit of a cycle of its id only; and the commit of a later cycle of
\* the id leaves that Owner with the login, display name, email, avatar and
\* campus of the cycle's profile, and no second one.
C21_OneOwnerPerRemoteId == [][OwnerFollowsTheCommit]_vars

----------------------------------------------------------------------------
(* The properties of _fetch_all.                                           *)

\* The batches of the pages 1..n of an upstream, one after the other.
RECURSIVE PagesJoined(_, _)
PagesJoined(upstream, n) ==
  IF n = 0 THEN <<>> ELSE PagesJoined(upstream, n - 1) \o ResponseTo(upstream, n).batch

\* The page of a request was answered with 200 and a full page.
FullPage(upstream, k) ==
  /\ ResponseTo(upstream, k).status_code = 200
  /\ Len(ResponseTo(upstream, k).batch) >= 100

\* C22: the requests are for the pages 1, 2, 3, ... in this order, each for
\* 100 records; every request but the last was answered with a full page, and
\* a fetch that has returned has stopped at a page that is empty or holds
\* fewer than 100 records; what it returns is the batches of the requested
\* pages one after the other, with every record, repeated or not, in place.
C22_PagesInOrder ==
  /\ \A k \in 1..Len(calls) : calls[k].page = k /\ calls[k].size = 100
  /\ \A k \in 1..(Len(calls) - 1) : FullPage(req.upstream, k)
  /\ pc = "fetching" => \A k \in 1..Len(calls) : FullPage(req.upstream, k)
  /\ (pc = "done" /\ out.result.ok) =>
       /\ Len(ResponseTo(req.upstream, Len(calls)).batch) < 100
       /\ out.result.v = PagesJoined(req.upstream, Len(calls))

\* A fetch of three pages, two full and one short, has returned 201 records,
\* of which the first and the fourth have the same id.
C22_Witness ==
  /\ pc = "done"
  /\ out.result.ok
  /\ Len(calls) = 3
  /\ Len(out.result.v) = 201
  /\ out.result.v[1].id = out.result.v[4].id
  /\ out.result.v[101].page = 2

\* The records of a fixed collection of n records.
RecordsOf(n) == PagesJoined(ServedInPages(n, 100), (n \div 100) + 1)

\* C23: on a collection fixed at N records, served in pages of 100 and always
\* with status 200, the fetch returns, has sent N div 100 + 1 requests when it
\* does and never more, and returns the N records.
C23_RequestsForFixedCollection ==
  req.fixed >= 0 =>
    /\ Len(calls) <= (req.fixed \div 100) + 1
    /\ pc = "fetching" => Len(calls) <= req.fixed \div 100
    /\ pc = "done" =>
         /\ out.result.ok
         /\ Len(calls) = (req.fixed \div 100) + 1
         /\ out.result.v = RecordsOf(req.fixed)
         /\ Len(out.result.v) = req.fixed

\* The fetch of a collection of 200 records has returned: its third request
\* was answered with an empty page.
C23_Witness ==
  /\ req.fixed = 200
  /\ pc = "done"
  /\ Len(calls) = 3
  /\ ResponseTo(req.upstream, 3).batch = <<>>
  /\ Len(out.result.v) = 200

----------------------------------------------------------------------------
(* The properties of a collection that holds a key more than once.         *)

\* The cycle has ended, and neither at the profile, nor at a fetch, nor by
\* being cancelled.
Reconciled == pc = "done" /\ req.sid # 0 /\ resp.status \notin {499, 502}

\* Every record of the fetched projects has an id that int() takes.
ProjectIdsParse(payloads) ==
  \A k \in 1..Len(payloads) : payloads[k].id = None \/ payloads[k].id.t = "int"

\* The records k and l of the fetched projects, both to be stored, have the
\* same id; the records k and l of the fetched curriculum have the same key.
SameProject(payloads, k, l) ==
  /\ k < l
  /\ ~IsPlaceholder(payloads[k]) /\ ~IsPlaceholder(payloads[l])
  /\ payloads[k].id # None /\ payloads[k].id = payloads[l].id
SameCursus(payloads, k, l) ==
  /\ k < l
  /\ CursusKey(payloads[k]).ok /\ CursusKey(payloads[k]).v # None
  /\ CursusKey(payloads[k]) = CursusKey(payloads[l])

\* C24: a cycle whose fetched projects or curriculum hold two records of the
\* same identity key (every id being a number) commits, and the store then
\* holds for the owner exactly one record of that key, the mapping of the
\* last fetched record of the key.
C24_DuplicateKeysLastWins ==
  Reconciled =>
    /\ \A k, l \in 1..Len(req.projects_payload) :
         (ProjectIdsParse(req.projects_payload) /\ SameProject(req.projects_payload, k, l))
         => /\ resp.committed
            /\ {r \in ProjectsOf(db, req.sid) :
                  r.forty_two_project_user_id = req.projects_payload[k].id}
                 = {_project_payload_to_kwargs(
                      req.projects_payload[LastProjectOf(req.projects_payload, k)],
                      req.sid).v}
    /\ \A k, l \in 1..Len(req.cursus_payload) :
         (ProjectIdsParse(req.projects_payload) /\ SameCursus(req.cursus_payload, k, l))
         => /\ resp.committed
            /\ EnrollmentsFor(db, req.sid, CursusKey(req.cursus_payload[k]).v.v,
                              _cursus_payload_to_kwargs(
                                req.cursus_payload[LastCursusOf(req.cursus_payload, k)],
                                req.sid).v)
                 = SetToBag({_cursus_payload_to_kwargs(
                               req.cursus_payload[LastCursusOf(req.cursus_payload, k)],
                               req.sid).v})

----------------------------------------------------------------------------
(* The properties of a record without a usable key.                        *)

\* No key comes twice in the fetched collection.
ProjectsDistinct(payloads) ==
  \A k, l \in 1..Len(payloads) : ~SameProject(payloads, k, l)
CursusDistinct(payloads) ==
  \A k, l \in 1..Len(payloads) : ~SameCursus(payloads, k, l)

\* The record is to be stored but its key is missing or is no number; the
\* record is to be stored and has a number as key.
ProjectKeyUnusable(item) ==
  ~IsPlaceholder(item) /\ (item.id = None \/ item.id.t # "int")
ProjectKeyUsable(item) ==
  ~IsPlaceholder(item) /\ item.id # None /\ item.id.t = "int"
CursusKeyUnusable(item) == ~CursusKey(item).ok \/ CursusKey(item).v = None
CursusKeyUsable(item) == CursusKey(item).ok /\ CursusKey(item).v # None

\* The store holds for the owner the mapping of every fetched record with a
\* usable key, and no row under an id that is not mapped from such a record.
ProjectsHeld(store, sid, payloads) ==
  /\ \A k \in 1..Len(payloads) :
       ProjectKeyUsable(payloads[k])
       => _project_payload_to_kwargs(payloads[k], sid).v \in ProjectsOf(store, sid)
  /\ \A r \in ProjectsOf(store, sid) :
       \E k \in 1..Len(payloads) :
         /\ ProjectKeyUsable(payloads[k])
         /\ r.forty_two_project_user_id = payloads[k].id
CursusHeld(store, sid, payloads) ==
  /\ \A k \in 1..Len(payloads) :
       CursusKeyUsable(payloads[k])
       => _cursus_payload_to_kwargs(payloads[k], sid).v \in DOMAIN EnrollmentsOf(store, sid)
  /\ \A r \in DOMAIN EnrollmentsOf(store, sid) :
       \E k \in 1..Len(payloads) :
         /\ CursusKeyUsable(payloads[k])
         /\ r.forty_two_cursus_id
              = _cursus_payload_to_kwargs(payloads[k], sid).v.forty_two_cursus_id

\* C25: a cycle whose fetched projects or curriculum hold a record with a
\* missing or unparseable key (and no key twice) commits; the store then
\* holds the mapping of every other record and no row under another id.
C25_UnusableKeysAreSkipped ==
  (/\ Reconciled
   /\ ProjectsDistinct(req.projects_payload) /\ CursusDistinct(req.cursus_payload)
   /\ \/ \E k \in 1..Len(req.projects_payload) : ProjectKeyUnusable(req.projects_payload[k])
      \/ \E k \in 1..Len(req.cursus_payload) : CursusKeyUnusable(req.cursus_payload[k]))
  => /\ resp.committed
     /\ ProjectsHeld(db, req.sid, req.projects_payload)
     /\ CursusHeld(db, req.sid, req.cursus_payload)

----------------------------------------------------------------------------
(* The properties of a profile without id.                                 *)

\* The callback being served has fetched a profile that has no id.
ProfileWithoutId ==
  /\ web.cb.profile.id = None
  /\ \E k \in 1..Len(calls) : calls[k].url = "v2/me" /\ calls[k].status_code = 200

\* The request has not gone past _upsert_student: no collection was asked
\* for, the session holds no write, the committed store is the one the
\* request found, and no session cookie is set.
EndsAtTheProfile ==
  /\ \A k \in 1..Len(calls) : calls[k].url \in {"oauth/token", "v2/me"}
  /\ pc \in {"profile", "done", "responded"}
  /\ tx = db
  /\ db = web.cb.before
  /\ ~resp.committed
  /\ web.cb.set_session = None

\* C26 as stated: a callback whose fetched profile has no id ends before any
\* collection fetch and before any write, with a client error (4xx).
C26_NoIdProfileIsAClientError ==
  ProfileWithoutId =>
    /\ EndsAtTheProfile
    /\ pc = "responded" => web.cb.status \in 400..499

\* C26, amended: a callback whose fetched profile has no id ends before any
\* collection fetch and before any write, with the server error 500
\* "Profile missing id".
C26_NoIdProfileIsAServerError ==
  ProfileWithoutId =>
    /\ EndsAtTheProfile
    /\ pc = "done" => resp.status = 500 /\ resp.detail = "Profile missing id"
    /\ pc = "responded" => web.cb.status = 500 /\ web.cb.detail = "Profile missing id"

\* The response to a callback whose profile had no id, on a store that holds
\* an owner.
C26_Witness ==
  /\ ProfileWithoutId
  /\ pc = "responded"
  /\ web.cb.status = 500
  /\ Len(db.students) = 1
  /\ Len(calls) = 2

----------------------------------------------------------------------------
(* The properties of the two keys of a curriculum record.                  *)

\* C27: for every fetched curriculum record that is not skipped, the key
\* _sync_cursus sees it under is the forty_two_cursus_id its mapping writes;
\* so after a commit the owner's stored keys include the key of every such
\* record, and the next cycle finds the record as existing.
C27_SeenKeyIsTheStoredKey ==
  \A k \in 1..Len(req.cursus_payload) :
    CursusKeyUsable(req.cursus_payload[k]) =>
      /\ _cursus_payload_to_kwargs(req.cursus_payload[k], req.sid).v.forty_two_cursus_id
           = CursusKey(req.cursus_payload[k]).v
      /\ Committed =>
           CursusKey(req.cursus_payload[k]).v.v \in StoredCursusIds(db, req.sid)

----------------------------------------------------------------------------
(* The properties of the owner behind a session.                           *)

\* C28: whenever the session cookie the browser holds, set by callback,
\* decodes to a session, the committed store holds a student with the
\* session's id as forty_two_id; and a /students/me request that carried that
\* cookie has not ended with 404 "Student profile not synced".
C28_SessionHasAnOwner ==
  /\ (/\ web.jar.session # None
      /\ decode_session(web.jar.session.raw, Settings, now).ok
      /\ decode_session(web.jar.session.raw, Settings, now).v # None)
     => StudentIdsOf(db, decode_session(web.jar.session.raw, Settings, now).v.user.id) # {}
  /\ (/\ web.rq.op = "students/me"
      /\ web.rq.cookie # None
      /\ web.rq.cookie = web.jar.session)
     => web.rq.status # 404

\* A /students/me request with the cookie set by callback has found Alice.
C28_Witness ==
  /\ web.rq.op = "students/me"
  /\ web.rq.cookie # None
  /\ web.rq.cookie = web.jar.session
  /\ web.rq.status = 200
  /\ web.rq.body = S("alice")

----------------------------------------------------------------------------
(* The properties of a callback that fails at the token or the profile.    *)

\* The code exchange of the callback being served has raised, or its profile
\* fetch was answered with another status than 200.
ExchangeFailed ==
  \E k \in 1..Len(calls) :
    calls[k].url \in {"oauth/token", "v2/me"} /\ calls[k].status_code # 200

\* C29: a callback whose code exchange raised or whose profile fetch was not
\* answered with 200 has ended with 400; the sync was not started (no
\* collection request, no write in the session), the committed store is the
\* one the request found, no session cookie is set and the state cookie the
\* request carried is still in the browser.
C29_FailedExchangeEndsWith400 ==
  ExchangeFailed =>
    /\ pc = "responded"
    /\ web.cb.status = 400
    /\ web.cb.detail \in {"Failed to fetch tokens", "Failed to fetch user profile"}
    /\ \A k \in 1..Len(calls) : calls[k].url \in {"oauth/token", "v2/me"}
    /\ req = NoReq /\ resp = NoResp
    /\ tx = db /\ db = web.cb.before
    /\ web.cb.set_session = None
    /\ web.jar.state # None /\ web.jar.state = web.cb.cookie

\* A callback on a store that holds an owner has ended at a profile fetch
\* that was answered with 401.
C29_Witness ==
  /\ ExchangeFailed
  /\ pc = "responded"
  /\ Len(calls) = 2
  /\ calls[2].status_code = 401
  /\ web.cb.detail = "Failed to fetch user profile"
  /\ Len(db.students) = 1

====
